---- MODULE Spec2Model ----
(***************************************************************************)
(* Verification model of the "Unsupervised Learning" lab notebooks:        *)
(*   Lab1  handwritten_digit_clustering.ipynb   (K-Means)                  *)
(*   Lab1  Handwritten Digits Clustering by SOM.ipynb                      *)
(*   Lab2  dimensionality reduction notebook    (PCA / t-SNE)              *)
(*   Lab3  autoencoder notebook                 (PyTorch)                  *)
(*                                                                         *)
(* Three specifications share the variables below.                        *)
(*   SpecNet    Autoencoder.forward / Autoencoder.features, statement by   *)
(*              statement, on one sample with integer weights.             *)
(*   SpecTrain  the statements of the autoencoder training cell, one       *)
(*              action per statement.                                      *)
(*   Spec       the notebooks run cell by cell, one kernel per notebook.   *)
(*                                                                         *)
(* Floating point numbers are modelled by integers.  Library calls         *)
(* (scikit-learn, PyTorch, SimpSOM) follow the documented contract of the  *)
(* library; the notebooks hold the call and, where recorded, its output.   *)
(***************************************************************************)
EXTENDS Integers, Sequences, FiniteSets, TLC

VARIABLES
    net,        \* the Autoencoder instance: its parameters
    xin,        \* SpecNet: the argument of the running method call
    xloc,       \* SpecNet: the local x of the running method call
    fpc,        \* SpecNet: position inside forward / features
    applied,    \* SpecNet: the layers applied so far by the running call
    ret,        \* SpecNet: the value returned by the last call
    kernels,    \* Spec: per notebook, the state of its kernel
    files,      \* Spec: the files written to disk
    runMode,    \* Spec: "run_all" stops at the first failing cell, "by_hand" goes on
    tpc,        \* SpecTrain: the statement of the training cell to run next
    titer,      \* SpecTrain: the iterators of the two for loops
    seen,       \* SpecTrain: what the passes of the loops have produced so far
    scall,      \* SpecSplit: a call of train_test_split, its arguments and result
    km,         \* SpecKMeans: a KMeans object, the data it is fitted on and queried with
    som         \* SpecSom: a somNet object, the data it is trained on and queried with

netVars == <<net, xin, xloc, fpc, applied, ret>>
trVars  == <<tpc, titer, seen>>
libVars == <<km, som>>
nbVars  == <<kernels, files, runMode, tpc, titer, seen, scall, km, som>>
vars == <<net, xin, xloc, fpc, applied, ret, kernels, files, runMode, tpc, titer, seen, scall,
          km, som>>

LibIdle == km = <<>> /\ som = <<>>

(***************************************************************************)
(* Bounds of the model.                                                    *)
(***************************************************************************)
MaxWSeed == 2      \* initial weight draws 0..MaxWSeed
MaxXSeed == 3      \* input vectors: slopes and offsets 0..MaxXSeed
MaxRng   == 2      \* states 0..MaxRng of a kernel's random number generator
MaxTick  == 1      \* a library call takes 0..MaxTick clock ticks
MaxSeed  == 1      \* SpecTrain: the generator starts in a state 0..MaxSeed
MaxN     == 6      \* SpecSplit: data sets of 1..MaxN samples
MaxExtra == 2      \* SpecKMeans: up to MaxExtra samples more than clusters
MaxTest  == 3      \* SpecKMeans, SpecSom: the number of test samples
MaxDen   == 4      \* SpecSplit: float test sizes a/b with b in 2..MaxDen

(***************************************************************************)
(* Program constants.                                                      *)
(***************************************************************************)
NSamples == 1797   \* rows of load_digits
BS       == 512
EPOCHS   == 300
NFeatures == 64    \* columns of load_digits

(***************************************************************************)
(* Autoencoder.__init__ : the four nn.Linear layers.                       *)
(***************************************************************************)
enc1 == [name |-> "enc1", in_features |-> 64, out_features |-> 32]
\* mutant: the bottleneck layer built with a width dec1 does not accept
enc2_wide == [name |-> "enc2", in_features |-> 32, out_features |-> 12]
enc2 == [name |-> "enc2", in_features |-> 32, out_features |-> 10]
dec1 == [name |-> "dec1", in_features |-> 10, out_features |-> 32]
dec2 == [name |-> "dec2", in_features |-> 32, out_features |-> 64]

\* A parameter set is named by the draw of the initial weights and the
\* number of optimizer steps applied since; Wt and Bias give its entries.
Wt(n, L, j, i) ==
    (((n.init + 1) * (j + 2 * i) + 3 * n.steps + Len(L.name) + j * i) % 3) - 1
Bias(n, L, j)  == ((n.init + j + n.steps) % 3) - 1

RECURSIVE Dot(_, _, _, _, _)
Dot(n, L, j, x, i) ==
    IF i = 0 THEN 0 ELSE Wt(n, L, j, i) * x[i] + Dot(n, L, j, x, i - 1)

\* nn.Linear.__call__ : y = x W^T + b; an input whose width is not
\* in_features raises (ShapeOK is false).
ShapeOK(L, x) == Len(x) = L.in_features
Linear(n, L, x) ==
    [j \in 1..L.out_features |-> Dot(n, L, j, x, L.in_features) + Bias(n, L, j)]

\* F.relu, elementwise max(0, .)
relu(x) == [j \in 1..Len(x) |-> IF x[j] > 0 THEN x[j] ELSE 0]

None == <<>>

\* One statement  x = F.relu(self.<L>(x))  of forward / features.
LayerStmt(L, from, to) ==
    /\ fpc = from
    /\ IF ShapeOK(L, xloc)
       THEN /\ fpc' = to
            /\ xloc' = relu(Linear(net, L, xloc))
            /\ applied' = Append(applied, [layer |-> L.name, inw |-> Len(xloc),
                                           outw |-> Len(xloc')])
       ELSE /\ fpc' = "raised"
            /\ UNCHANGED <<xloc, applied>>
    /\ UNCHANGED <<net, xin, ret>>
    /\ UNCHANGED nbVars

\* net(x): Module.__call__ enters forward with the argument bound to x.
\* After z = net.features(x) the caller may pass the same x and still holds z.
CallForward ==
    /\ fpc \in {"idle", "returned", "feat_returned", "raised"}
    /\ \/ /\ \E a \in 0..MaxXSeed, b \in 0..MaxXSeed :
                xin' = [i \in 1..enc1.in_features |-> (a * i + b) % 17]
          /\ ret' = None
       \/ /\ fpc = "feat_returned"
          /\ UNCHANGED <<xin, ret>>
    /\ xloc' = xin'
    /\ fpc' = "fwd_enc1"
    /\ applied' = <<>>
    /\ UNCHANGED net
    /\ UNCHANGED nbVars

ForwardReturn ==
    /\ fpc = "fwd_ret"
    /\ ret' = xloc
    /\ fpc' = "returned"
    /\ UNCHANGED <<net, xin, xloc, applied>>
    /\ UNCHANGED nbVars

\* mutant: the last statement of forward without its activation
forward_linear_out ==
    \/ LayerStmt(enc1, "fwd_enc1", "fwd_enc2")
    \/ LayerStmt(enc2, "fwd_enc2", "fwd_dec1")
    \/ LayerStmt(dec1, "fwd_dec1", "fwd_dec2")
    \/ /\ fpc = "fwd_dec2"
       /\ fpc' = "fwd_ret"
       /\ xloc' = Linear(net, dec2, xloc)
       /\ applied' = Append(applied, [layer |-> dec2.name, inw |-> Len(xloc),
                                      outw |-> Len(xloc')])
       /\ UNCHANGED <<net, xin, ret>>
       /\ UNCHANGED nbVars
    \/ ForwardReturn

\* def forward(self, x): the four layer statements, then return x
forward ==
    \/ LayerStmt(enc1, "fwd_enc1", "fwd_enc2")
    \/ LayerStmt(enc2, "fwd_enc2", "fwd_dec1")
    \/ LayerStmt(dec1, "fwd_dec1", "fwd_dec2")
    \/ LayerStmt(dec2, "fwd_dec2", "fwd_ret")
    \/ ForwardReturn

\* net.features(x): features is entered with the argument bound to x.
CallFeatures ==
    /\ fpc \in {"idle", "returned", "feat_returned", "raised"}
    /\ \E a \in 0..MaxXSeed, b \in 0..MaxXSeed :
          xin' = [i \in 1..enc1.in_features |-> (a * i + b) % 17]
    /\ xloc' = xin'
    /\ fpc' = "feat_enc1"
    /\ applied' = <<>>
    /\ ret' = None
    /\ UNCHANGED net
    /\ UNCHANGED nbVars

\* mutant: features returns after its first statement
features_enc1 ==
    \/ LayerStmt(enc1, "feat_enc1", "feat_ret")
    \/ /\ fpc = "feat_ret"
       /\ ret' = xloc
       /\ fpc' = "feat_returned"
       /\ UNCHANGED <<net, xin, xloc, applied>>
       /\ UNCHANGED nbVars

\* def features(self, x): the two encoder statements, then return x
features ==
    \/ LayerStmt(enc1, "feat_enc1", "feat_enc2")
    \/ LayerStmt(enc2, "feat_enc2", "feat_ret")
    \/ /\ fpc = "feat_ret"
       /\ ret' = xloc
       /\ fpc' = "feat_returned"
       /\ UNCHANGED <<net, xin, xloc, applied>>
       /\ UNCHANGED nbVars

\* net = Autoencoder(): nn.Linear draws the initial weights.
InitNet ==
    /\ net \in [init : 0..MaxWSeed, steps : {0}]
    /\ xin = None
    /\ xloc = None
    /\ fpc = "idle"
    /\ applied = <<>>
    /\ ret = None
    /\ kernels = <<>>
    /\ files = {}
    /\ runMode = "none"
    /\ tpc = "idle"
    /\ titer = <<>>
    /\ seen = <<>>
    /\ scall = <<>>
    /\ LibIdle

NextNet == CallForward \/ forward \/ CallFeatures \/ features

SpecNet == InitNet /\ [][NextNet]_vars

(***************************************************************************)
(* The kernel of a notebook: values, names, objects.                       *)
(*                                                                         *)
(* A row of the digits data is named by its sample id 1..NSamples; the     *)
(* label of sample id is Label(id).  An ndarray is its rows (sample ids    *)
(* for a data matrix, labels for a label vector), its number of columns    *)
(* (0 for a vector) and the transformations applied to it.  Mutable        *)
(* objects (KMeans, somNet, Autoencoder, Adam) live in the kernel's heap   *)
(* and names are bound to references.                                      *)
(***************************************************************************)
Label(id) == (id - 1) % 10

Num(v)      == [kind |-> "num", v |-> v, den |-> 1]
Frac(v, d)  == [kind |-> "num", v |-> v, den |-> d]    \* the float v / d
Tensor(rows, cols, dtype, src) ==
    [kind |-> "tensor", rows |-> rows, cols |-> cols, dtype |-> dtype, src |-> src]
Imported    == [kind |-> "import"]
Ref(i)      == [kind |-> "ref", id |-> i]
Arr(rows, cols, hist) == [kind |-> "ndarray", rows |-> rows, cols |-> cols, hist |-> hist]
List(items) == [kind |-> "list", items |-> items]

Bind(ns, name, val) ==
    [v \in DOMAIN ns \cup {name} |-> IF v = name THEN val ELSE ns[v]]

RECURSIVE BindAll(_, _, _)
BindAll(ns, names, val) ==
    IF names = {} THEN ns
    ELSE LET n == CHOOSE x \in names : TRUE
         IN  BindAll(Bind(ns, n, val), names \ {n}, val)

FreshKernel(r) ==
    [ next  |-> 1,        \* index of the next code cell to run
      ns    |-> <<>>,     \* the user namespace
      heap  |-> <<>>,     \* the mutable objects
      rng   |-> r,        \* state of the random number generator
      clock |-> 0,        \* time.time()
      calls |-> <<>>,     \* the library calls made, in order
      outs  |-> <<>>,     \* the outputs displayed, in order
      done  |-> <<>>,     \* the outcome of every cell run, in order
      wrote |-> {},       \* the files this kernel wrote
      err   |-> "" ]      \* the exception raised by the running cell, if any

Raise(k, e) == [k EXCEPT !.err = e]
Draw(k)     == [k EXCEPT !.rng = (k.rng + 1) % (MaxRng + 1)]
Tick(k, d)  == [k EXCEPT !.clock = k.clock + d]
Set(k, name, val) == [k EXCEPT !.ns = Bind(k.ns, name, val)]
Show(k, what)     == [k EXCEPT !.outs = Append(k.outs, what)]
Log(k, call)      == [k EXCEPT !.calls = Append(k.calls, call)]
New(k, obj)       == [k EXCEPT !.heap = Append(k.heap, obj)]
Obj(k, name)      == k.heap[k.ns[name].id]
Put(k, name, obj) == [k EXCEPT !.heap[k.ns[name].id] = obj]

(***************************************************************************)
(* Compiling a cell.  IPython compiles the whole cell before it runs any   *)
(* of it.  A source line is summarised by its number of double quotes, of  *)
(* single quotes, of opening and of closing brackets (no line of the       *)
(* notebooks has a quote or a bracket inside a string, an escape or a      *)
(* triple quote): a line is <<double quotes, single quotes, opening        *)
(* brackets, closing brackets>>.  A string literal ends on the line it     *)
(* starts on; a statement ends where the brackets are balanced.            *)
(***************************************************************************)
\* the scan without the rule that a string literal ends on its line
RECURSIVE Scan_noquotes(_, _, _)
Scan_noquotes(lex, i, depth) ==
    IF i > Len(lex) THEN
        IF depth > 0 THEN "SyntaxError: unexpected EOF while parsing" ELSE ""
    ELSE IF depth + lex[i][3] - lex[i][4] < 0 THEN
        "SyntaxError: invalid syntax"
    ELSE Scan_noquotes(lex, i + 1, depth + lex[i][3] - lex[i][4])

RECURSIVE Scan(_, _, _)
Scan(lex, i, depth) ==
    IF i > Len(lex) THEN
        IF depth > 0 THEN "SyntaxError: unexpected EOF while parsing" ELSE ""
    ELSE IF lex[i][1] % 2 = 1 \/ lex[i][2] % 2 = 1 THEN
        "SyntaxError: EOL while scanning string literal"
    ELSE IF depth + lex[i][3] - lex[i][4] < 0 THEN
        "SyntaxError: invalid syntax"
    ELSE Scan(lex, i + 1, depth + lex[i][3] - lex[i][4])

Compile(lex) == Scan(lex, 1, 0)

(***************************************************************************)
(* sklearn.model_selection.train_test_split(X, y, test_size=...)           *)
(* test_size is an int (IntSize) or a float (FloatSize, a fraction         *)
(* num/den).  The call validates test_size, draws a permutation of the     *)
(* row indices, gives its first n_test entries to the test set and the     *)
(* following n_train entries to the train set, and indexes every array     *)
(* with the same index lists.                                              *)
(***************************************************************************)
IntSize(v)        == [int |-> TRUE,  num |-> v,   den |-> 1]
FloatSize(num, den) == [int |-> FALSE, num |-> num, den |-> den]

\* the permutation drawn in generator state r: a rotation, mirrored for odd r
Perm(r, n) ==
    [i \in 1..n |-> IF r % 2 = 0 THEN ((i - 1 + 5 * r) % n) + 1
                    ELSE n - ((i - 1 + 5 * r) % n)]

TestSizeOK(ts, n) ==
    IF ts.int THEN ts.num > 0 /\ ts.num < n
    ELSE ts.num > 0 /\ ts.num < ts.den

\* mutant: the fraction of the samples rounded down
NTest_floor(ts, n) ==
    IF ts.int THEN ts.num ELSE (ts.num * n) \div ts.den

\* int: the count itself; float: ceil(test_size * n_samples)
NTest(ts, n) ==
    IF ts.int THEN ts.num ELSE (ts.num * n + ts.den - 1) \div ts.den

NTrain(ts, n) == n - NTest(ts, n)

Take(a, idx) == Arr([i \in 1..Len(idx) |-> a.rows[idx[i]]], a.cols, a.hist)

SplitError(X, y, ts) ==
    LET n == Len(X.rows) IN
    IF Len(y.rows) # n THEN "ValueError: inconsistent numbers of samples"
    ELSE IF ~TestSizeOK(ts, n) THEN "ValueError: test_size"
    ELSE IF NTrain(ts, n) = 0 THEN "ValueError: the resulting train set will be empty"
    ELSE ""

\* mutant: the train window starts one entry early, on the last test index
train_test_split_overlap(X, y, ts, r) ==
    LET n     == Len(X.rows)
        perm  == Perm(r, n)
        test  == SubSeq(perm, 1, NTest(ts, n))
        train == SubSeq(perm, NTest(ts, n), NTest(ts, n) + NTrain(ts, n) - 1)
    IN  << Take(X, train), Take(X, test), Take(y, train), Take(y, test) >>

train_test_split(X, y, ts, r) ==
    LET n     == Len(X.rows)
        perm  == Perm(r, n)
        test  == SubSeq(perm, 1, NTest(ts, n))
        train == SubSeq(perm, NTest(ts, n) + 1, NTest(ts, n) + NTrain(ts, n))
    IN  << Take(X, train), Take(X, test), Take(y, train), Take(y, test) >>

(***************************************************************************)
(* The statements of the notebooks.  A statement names its operation, the  *)
(* names it reads and its arguments; ExecStmt runs it on a kernel.  A      *)
(* statement that reads an unbound name raises NameError.                  *)
(***************************************************************************)
St(op, reads, a) == [op |-> op, reads |-> reads, a |-> a]

ExecImport(k, a) == [k EXCEPT !.ns = BindAll(k.ns, a.names, Imported)]
ExecConst(k, a)  == Set(k, a.tgt, Num(a.v))
ExecPrintShape(k, a) ==
    Show(k, [what |-> "shape", of |-> a.of, rows |-> Len(k.ns[a.of].rows), cols |-> k.ns[a.of].cols])
ExecPrint(k, a)  == Show(k, [what |-> "print", of |-> a.of])
\* tic = time.time(), tac = time.time(): the reading is also kept in the call log
ExecTime(k, a) ==
    Log(Set(k, a.tgt, Num(k.clock)), [fn |-> "time.time", tgt |-> a.tgt, at |-> k.clock])

\* mutant: the difference is taken the other way round
ExecPrintElapsed_swapped(k, a) ==
    Show(k, [what |-> "print", of |-> {a.hi, a.lo}, v |-> k.ns[a.lo].v - k.ns[a.hi].v])

\* print("... time: %s sec." % str(tac - tic))
ExecPrintElapsed(k, a) ==
    Show(k, [what |-> "print", of |-> {a.hi, a.lo}, v |-> k.ns[a.hi].v - k.ns[a.lo].v])

\* what a plot shows of an argument: an array's rows and columns
Shown(k, name) ==
    IF k.ns[name].kind \in {"ndarray", "tensor"}
    THEN [name |-> name, rows |-> k.ns[name].rows, cols |-> k.ns[name].cols]
    ELSE [name |-> name, rows |-> <<>>, cols |-> 0]
ExecPlot(k, a) ==
    Show(k, [what |-> a.fn, args |-> [i \in 1..Len(a.args) |-> Shown(k, a.args[i])]])

\* X, y = load_digits(return_X_y=True)
ExecLoadDigits(k, a) ==
    Set(Set(k, a.x, Arr([i \in 1..NSamples |-> i], NFeatures, <<>>)),
        a.y, Arr([i \in 1..NSamples |-> Label(i)], 0, <<>>))

\* X_train, X_test, y_train, y_test = train_test_split(X, y, test_size=ts)
ExecSplit(k, a) ==
    LET e == SplitError(k.ns["X"], k.ns["y"], a.ts)
        r == train_test_split(k.ns["X"], k.ns["y"], a.ts, k.rng)
    IN  IF e # "" THEN Raise(k, e)
        ELSE Draw(Set(Set(Set(Set(Log(k, [fn |-> "train_test_split", trained |-> TRUE, hist |-> <<>>]),
                 "X_train", r[1]), "X_test", r[2]), "y_train", r[3]), "y_test", r[4]))

\* mutant: the scaled matrix is computed and dropped, X keeps the raw data
ExecScale_dropped(k, a) == Log(k, [fn |-> "scale", trained |-> TRUE, hist |-> k.ns[a.arg].hist])

\* X = scale(X)
ExecScale(k, a) ==
    Set(Log(k, [fn |-> "scale", trained |-> TRUE, hist |-> k.ns[a.arg].hist]),
        a.tgt, Arr(k.ns[a.arg].rows, k.ns[a.arg].cols, Append(k.ns[a.arg].hist, "scale")))

\* tgt = PCA(n_components=2).fit_transform(arg), and the same with TSNE
\* PCA takes at most min(n_samples, n_features) components, TSNE (barnes_hut)
\* fewer than 4; the result has one row per row of arg, in the order of arg
FitTransformError(k, a) ==
    IF a.cls = "PCA" /\ (a.n_components > Len(k.ns[a.arg].rows) \/ a.n_components > k.ns[a.arg].cols)
        THEN "ValueError: n_components"
    ELSE IF a.cls = "TSNE" /\ a.n_components >= 4 THEN "ValueError: n_components"
    ELSE ""

\* mutant: the embedding comes back in the reverse order of the rows
ExecFitTransform_reversed(k, a, d) ==
    Tick(Set(Log(k, [fn |-> a.cls, trained |-> TRUE, hist |-> k.ns[a.arg].hist]),
             a.tgt, Arr([i \in 1..Len(k.ns[a.arg].rows) |->
                            k.ns[a.arg].rows[Len(k.ns[a.arg].rows) + 1 - i]],
                        a.n_components, Append(k.ns[a.arg].hist, a.cls))), d)

ExecFitTransform(k, a, d) ==
    IF FitTransformError(k, a) # "" THEN Raise(k, FitTransformError(k, a))
    ELSE Tick(Set(Log(k, [fn |-> a.cls, trained |-> TRUE, hist |-> k.ns[a.arg].hist]),
                  a.tgt, Arr(k.ns[a.arg].rows, a.n_components, Append(k.ns[a.arg].hist, a.cls))), d)

(***************************************************************************)
(* KMeans (handwritten_digit_clustering.ipynb)                             *)
(***************************************************************************)
\* kmeans_obj = KMeans(n_clusters=10, n_init=50, max_iter=100)
ExecNewKMeans(k, a) ==
    Set(New(k, [kind |-> "KMeans", n_clusters |-> a.n_clusters, n_init |-> a.n_init,
                max_iter |-> a.max_iter, trained |-> FALSE, labels_ |-> <<>>, seed |-> 0]),
        a.tgt, Ref(Len(k.heap) + 1))

\* clusters_train = kmeans_obj.fit(X_train): fits in place and returns self
ExecFit(k, a, d) ==
    LET o == Obj(k, a.obj)
        rows == k.ns[a.arg].rows
        fitted == [o EXCEPT !.trained = TRUE, !.seed = k.rng,
                            !.labels_ = [i \in 1..Len(rows) |-> (rows[i] + k.rng) % o.n_clusters]]
    IN  Tick(Draw(Set(Log(Put(k, a.obj, fitted), [fn |-> "KMeans.fit", trained |-> TRUE, hist |-> k.ns[a.arg].hist]),
                      a.tgt, k.ns[a.obj])), d)

\* mutant: predict fits the model again, on its argument
ExecPredict_refit(k, a) ==
    LET o == Obj(k, a.obj)
        rows == k.ns[a.arg].rows
        labels == [i \in 1..Len(rows) |-> (rows[i] + o.seed) % o.n_clusters]
    IN  IF ~o.trained THEN Raise(k, "NotFittedError")
        ELSE Set(Log(Put(k, a.obj, [o EXCEPT !.labels_ = labels]),
                     [fn |-> "KMeans.predict", trained |-> TRUE, hist |-> k.ns[a.arg].hist]),
                 a.tgt, Arr(labels, 0, <<>>))

\* clusters_test = kmeans_obj.predict(X_test)
ExecPredict(k, a) ==
    LET o == Obj(k, a.obj)
        rows == k.ns[a.arg].rows
    IN  IF ~o.trained THEN Raise(Log(k, [fn |-> "KMeans.predict", trained |-> FALSE, hist |-> k.ns[a.arg].hist]),
                                 "NotFittedError")
        ELSE Set(Log(k, [fn |-> "KMeans.predict", trained |-> TRUE, hist |-> k.ns[a.arg].hist]),
                 a.tgt, Arr([i \in 1..Len(rows) |-> (rows[i] + o.seed) % o.n_clusters], 0, <<>>))

\* plot_clusters(X_train, clusters_train.labels_), plot_centroids(clusters_train, clusters_test)
ExecPlotModel(k, a) ==
    IF ~Obj(k, a.obj).trained THEN Raise(k, "AttributeError")
    ELSE Show(k, [what |-> a.fn, args |-> [i \in 1..Len(a.args) |-> Shown(k, a.args[i])],
                  model |-> [id |-> k.ns[a.obj].id, attrs |-> Obj(k, a.obj)]])

(***************************************************************************)
(* SimpSOM (Handwritten Digits Clustering by SOM.ipynb)                    *)
(***************************************************************************)
\* net = somNet(20, 20, X_train)
ExecNewSom(k, a) ==
    Draw(Set(New(k, [kind |-> "somNet", h |-> a.h, w |-> a.w, dim |-> k.ns[a.arg].cols,
                     data |-> k.ns[a.arg].rows, trained |-> FALSE, epochs |-> 0, lr |-> 0,
                     seed |-> k.rng]),
             a.tgt, Ref(Len(k.heap) + 1)))

\* mutant: train returns at once and leaves the weights as they were built
ExecSomTrain_skipped(k, a, d) ==
    Tick(Log(k, [fn |-> "somNet.train", trained |-> FALSE, hist |-> <<>>]), d)

\* net.train(0.01, 10000); the learning rate is kept in units of 1/10000
ExecSomTrain(k, a, d) ==
    Tick(Draw(Log(Put(k, a.obj, [Obj(k, a.obj) EXCEPT !.trained = TRUE, !.epochs = a.epochs,
                                                      !.lr = a.lr, !.seed = k.rng]),
                  [fn |-> "somNet.train", trained |-> TRUE, hist |-> <<>>])), d)

\* net.save('filename_weights')
ExecSomSave(k, a) ==
    [Log(k, [fn |-> "somNet.save", trained |-> Obj(k, a.obj).trained, hist |-> <<>>])
        EXCEPT !.wrote = k.wrote \cup {[file |-> a.file, weights |-> Obj(k, a.obj)]}]

\* savefig: with printout=True, the default, the plotting methods of somNet
\* save their figure as a PNG file in the working directory
SomPrintout(k, a, file) == [k EXCEPT !.wrote = k.wrote \cup {[file |-> file, weights |-> Obj(k, a.obj)]}]

\* mutant: the graphs are drawn but not saved
ExecSomGraph_unsaved(k, a) ==
    Show(Log(k, [fn |-> a.fn, trained |-> Obj(k, a.obj).trained, hist |-> <<>>]),
         [what |-> a.fn, args |-> <<>>])

\* net.nodes_graph(colnum=9), net.diff_graph()
ExecSomGraph(k, a) ==
    SomPrintout(Show(Log(k, [fn |-> a.fn, trained |-> Obj(k, a.obj).trained, hist |-> <<>>]),
                     [what |-> a.fn, args |-> <<>>]),
                a, IF a.fn = "nodes_graph" THEN "nodesFeature_9.png" ELSE "nodesDifference.png")

\* prj = np.array(net.project(X_train))
ExecSomProject(k, a) ==
    SomPrintout(Set(Log(k, [fn |-> "somNet.project", trained |-> Obj(k, a.obj).trained, hist |-> k.ns[a.arg].hist]),
                    a.tgt, Arr(k.ns[a.arg].rows, 2, Append(k.ns[a.arg].hist, "project"))),
                a, "projection_difference.png")

(***************************************************************************)
(* Autoencoder notebook: data loader, network.                             *)
(***************************************************************************)
\* trainloader = DataLoader(X_train, batch_size=BS, shuffle=True)
\* testloader = DataLoader(X_test, batch_size=20)
ExecNewLoader(k, a) ==
    Set(k, a.tgt, [kind |-> "DataLoader", rows |-> k.ns[a.arg].rows, cols |-> k.ns[a.arg].cols,
                   batch_size |-> IF a.bsname = "" THEN a.bs ELSE k.ns[a.bsname].v,
                   shuffle |-> a.shuffle])

\* len(loader): the number of mini-batches, the last one may be short
LoaderLen(ld) == (Len(ld.rows) + ld.batch_size - 1) \div ld.batch_size

\* class Autoencoder(nn.Module): ...
ExecClassDef(k, a) == Set(k, a.tgt, [kind |-> "class"])

\* net = Autoencoder(): nn.Linear draws the initial weights; no gradient yet
ExecNewNet(k, a) ==
    Draw(Set(New(k, [kind |-> "Autoencoder", init |-> k.rng, steps |-> 0, grad |-> <<>>]),
             a.tgt, Ref(Len(k.heap) + 1)))

\* the width of net(x) for a batch of width w: the four layers in order,
\* -1 where a layer does not accept the width it is given
LayerWidth(L, w) == IF w = L.in_features THEN L.out_features ELSE -1
ForwardWidth(w) ==
    LayerWidth(dec2, LayerWidth(dec1, LayerWidth(enc2, LayerWidth(enc1, w))))

\* the iterator of a DataLoader: the order of the rows (a fresh permutation
\* when shuffle=True) and the number of rows handed out so far
LoaderIter(ld, r) ==
    [order |-> IF ld.shuffle THEN Perm(r, Len(ld.rows)) ELSE [i \in 1..Len(ld.rows) |-> i],
     pos |-> 0]
IterDone(ld, it) == it.pos >= Len(ld.rows)
IterBatch(ld, it) ==
    LET hi == IF it.pos + ld.batch_size < Len(ld.rows) THEN it.pos + ld.batch_size ELSE Len(ld.rows)
    IN  Tensor([i \in 1..(hi - it.pos) |-> ld.rows[it.order[it.pos + i]]], ld.cols, "float64", <<>>)
\* mutant: the iterator moves on by one row less than it handed out
IterAdvance_overlap(ld, it) == [it EXCEPT !.pos = it.pos + ld.batch_size - 1]
IterAdvance(ld, it) == [it EXCEPT !.pos = it.pos + ld.batch_size]

\* t.float()
Float(t) == [t EXCEPT !.dtype = "float32"]

\* outputs = net(batch.float()); src names the parameters that produced it
ExecForward(k, phase) ==
    IF k.err # "" THEN k
    ELSE IF ~({"net", "batch"} \subseteq DOMAIN k.ns) THEN Raise(k, "NameError")
    ELSE LET x == Float(k.ns["batch"])
             n == Obj(k, "net")
         IN  IF ForwardWidth(x.cols) < 0 THEN Raise(k, "RuntimeError: size mismatch")
             ELSE Set(Log(k, [fn |-> phase, trained |-> n.steps > 0, hist |-> <<>>]),
                      "outputs",
                      Tensor(x.rows, ForwardWidth(x.cols), "float32",
                             <<k.ns["net"].id, n.init, n.steps>>))

(***************************************************************************)
(* The statements of the training cell.                                    *)
(***************************************************************************)
\* criterion = nn.MSELoss()
TrainCriterion(k) ==
    IF k.err # "" THEN k
    ELSE IF ~("nn" \in DOMAIN k.ns) THEN Raise(k, "NameError")
    ELSE Set(k, "criterion", [kind |-> "MSELoss"])

\* optimizer = optim.Adam(net.parameters(), lr=LR)
TrainOptimizer(k) ==
    IF k.err # "" THEN k
    ELSE IF ~({"optim", "net", "LR"} \subseteq DOMAIN k.ns) THEN Raise(k, "NameError")
    ELSE Set(New(k, [kind |-> "Adam", params |-> k.ns["net"].id, t |-> 0, used |-> <<>>]),
             "optimizer", Ref(Len(k.heap) + 1))

\* tic = time.time()
TrainTic(k) ==
    IF k.err # "" THEN k
    ELSE IF ~("time" \in DOMAIN k.ns) THEN Raise(k, "NameError")
    ELSE ExecTime(k, [tgt |-> "tic"])

\* train_loss = []
TrainLossInit(k) == IF k.err # "" THEN k ELSE Set(k, "train_loss", List(<<>>))

\* mutant: running_loss is set to 0 only where it is not bound yet
TrainRunningInit_keep(k) ==
    IF k.err # "" \/ "running_loss" \in DOMAIN k.ns THEN k ELSE Set(k, "running_loss", Num(0))

\* running_loss = 0.0
TrainRunningInit(k) == IF k.err # "" THEN k ELSE Set(k, "running_loss", Num(0))

\* mutant: zero_grad leaves the gradient as it is
TrainZeroGrad_keep(k) ==
    IF k.err # "" THEN k
    ELSE IF ~("optimizer" \in DOMAIN k.ns) THEN Raise(k, "NameError")
    ELSE k

\* optimizer.zero_grad(): clears the gradient of the optimizer's parameters
TrainZeroGrad(k) ==
    IF k.err # "" THEN k
    ELSE IF ~("optimizer" \in DOMAIN k.ns) THEN Raise(k, "NameError")
    ELSE [k EXCEPT !.heap[Obj(k, "optimizer").params].grad = <<>>]

\* the mean squared error of outputs against target, as a number
LossVal(out, target) ==
    1 + ((7 * out.src[2] + 3 * out.src[3] + out.rows[1] + target.rows[Len(target.rows)]) % 11)

\* loss = criterion(outputs, batch.float())
TrainLoss(k) ==
    IF k.err # "" THEN k
    ELSE IF ~({"criterion", "outputs", "batch"} \subseteq DOMAIN k.ns) THEN Raise(k, "NameError")
    ELSE LET out == k.ns["outputs"]
             tgt == Float(k.ns["batch"])
         IN  IF out.cols # tgt.cols \/ Len(out.rows) # Len(tgt.rows)
             THEN Raise(k, "RuntimeError: size mismatch")
             ELSE Set(k, "loss", [kind |-> "loss", v |-> LossVal(out, tgt), den |-> 1,
                                  out |-> out.rows, target |-> tgt.rows, src |-> out.src])

\* loss.backward(): adds the gradient of this loss to the gradient of the
\* parameters that produced it
TrainBackward(k) ==
    IF k.err # "" THEN k
    ELSE IF ~("loss" \in DOMAIN k.ns) THEN Raise(k, "NameError")
    ELSE LET l == k.ns["loss"]
         IN  [k EXCEPT !.heap[l.src[1]].grad =
                 Append(@, [rows |-> l.target, steps |-> l.src[3], v |-> l.v])]

\* optimizer.step(): updates the parameters from their gradient
TrainStep(k) ==
    IF k.err # "" THEN k
    ELSE IF ~("optimizer" \in DOMAIN k.ns) THEN Raise(k, "NameError")
    ELSE LET o == Obj(k, "optimizer")
             g == k.heap[o.params].grad
         IN  IF g = <<>> THEN k
             ELSE [k EXCEPT !.heap[o.params].steps = @ + 1,
                            !.heap[k.ns["optimizer"].id].t = @ + 1,
                            !.heap[k.ns["optimizer"].id].used = g]

\* running_loss += loss.item()
TrainAccum(k) ==
    IF k.err # "" THEN k
    ELSE IF ~({"running_loss", "loss"} \subseteq DOMAIN k.ns) THEN Raise(k, "NameError")
    ELSE Set(k, "running_loss", Num(k.ns["running_loss"].v + k.ns["loss"].v))

\* loss = running_loss / len(trainloader)
TrainAverage(k) ==
    IF k.err # "" THEN k
    ELSE IF ~({"running_loss", "trainloader"} \subseteq DOMAIN k.ns) THEN Raise(k, "NameError")
    ELSE IF LoaderLen(k.ns["trainloader"]) = 0 THEN Raise(k, "ZeroDivisionError")
    ELSE Set(k, "loss", Frac(k.ns["running_loss"].v, LoaderLen(k.ns["trainloader"])))

\* mutant: the list is replaced by a list of the new value alone
TrainAppend_replace(k) ==
    IF k.err # "" THEN k
    ELSE IF ~({"train_loss", "loss"} \subseteq DOMAIN k.ns) THEN Raise(k, "NameError")
    ELSE Set(k, "train_loss", List(<<k.ns["loss"]>>))

\* train_loss.append(loss)
TrainAppend(k) ==
    IF k.err # "" THEN k
    ELSE IF ~({"train_loss", "loss"} \subseteq DOMAIN k.ns) THEN Raise(k, "NameError")
    ELSE Set(k, "train_loss", List(Append(k.ns["train_loss"].items, k.ns["loss"])))

\* tac = time.time()
TrainTac(k) ==
    IF k.err # "" THEN k
    ELSE IF ~("time" \in DOMAIN k.ns) THEN Raise(k, "NameError")
    ELSE ExecTime(k, [tgt |-> "tac"])

\* the body of  for batch in trainloader:  for one mini-batch
TrainBatchBody(k) ==
    TrainAccum(TrainStep(TrainBackward(TrainLoss(ExecForward(TrainZeroGrad(k), "train.forward")))))

(***************************************************************************)
(* The loops of the training cell and of the test cell, run to their end   *)
(* (a cell is run as a whole by the kernel).                               *)
(***************************************************************************)
RECURSIVE TrainBatches(_, _)
TrainBatches(k, it) ==
    IF k.err # "" \/ IterDone(k.ns["trainloader"], it) THEN k
    ELSE TrainBatches(TrainBatchBody(Set(k, "batch", IterBatch(k.ns["trainloader"], it))),
                      IterAdvance(k.ns["trainloader"], it))

\* one pass of  for epoch in range(EPOCHS):  with epoch = e
TrainEpoch(k, e) ==
    IF k.err # "" THEN k
    ELSE IF ~("trainloader" \in DOMAIN k.ns) THEN Raise(k, "NameError")
    ELSE LET k1 == TrainRunningInit(Set(k, "epoch", Num(e)))
             it == LoaderIter(k1.ns["trainloader"], k1.rng)
             k2 == IF k1.ns["trainloader"].shuffle THEN Draw(k1) ELSE k1
         IN  TrainAppend(TrainAverage(TrainBatches(k2, it)))

\* the passes lo..hi of the epoch loop, in order
RECURSIVE TrainEpochs(_, _, _)
TrainEpochs(k, lo, hi) ==
    IF k.err # "" \/ lo > hi THEN k
    ELSE IF lo = hi THEN TrainEpoch(k, lo)
    ELSE TrainEpochs(TrainEpochs(k, lo, (lo + hi) \div 2), ((lo + hi) \div 2) + 1, hi)

ExecTrainLoop(k, d) ==
    LET k1 == TrainLossInit(TrainTic(TrainOptimizer(TrainCriterion(k))))
    IN  IF k1.err # "" THEN k1
        ELSE IF ~("EPOCHS" \in DOMAIN k1.ns) THEN Raise(k1, "NameError")
        ELSE TrainTac(Tick(TrainEpochs(k1, 0, k1.ns["EPOCHS"].v - 1), d))

\* for batch in testloader: plot_images(batch); outputs = net(batch.float());
\*                          plot_images(outputs.detach().numpy())
RECURSIVE TestBatches(_, _)
TestBatches(k, it) ==
    IF k.err # "" \/ IterDone(k.ns["testloader"], it) THEN k
    ELSE LET k1 == Set(k, "batch", IterBatch(k.ns["testloader"], it))
             k2 == Show(k1, [what |-> "plot_images", args |-> <<Shown(k1, "batch")>>])
             k3 == ExecForward(k2, "test.forward")
             k4 == IF k3.err # "" THEN k3
                   ELSE Show(k3, [what |-> "plot_images", args |-> <<Shown(k3, "outputs")>>])
         IN  TestBatches(k4, IterAdvance(k.ns["testloader"], it))

\* mutant: the test loop ends with a step on the parameters of net
ExecTestLoop_step(k) ==
    LET r == TestBatches(k, LoaderIter(k.ns["testloader"], k.rng))
    IN  IF r.err # "" THEN r
        ELSE Put(r, "net", [Obj(r, "net") EXCEPT !.steps = Obj(r, "net").steps + 1])
ExecTestLoop(k) == TestBatches(k, LoaderIter(k.ns["testloader"], k.rng))

(***************************************************************************)
(* Running a statement, a cell.                                            *)
(***************************************************************************)
ExecStmt(k, s, d) ==
    IF ~(s.reads \subseteq DOMAIN k.ns) THEN Raise(k, "NameError")
    ELSE CASE s.op = "import"        -> ExecImport(k, s.a)
           [] s.op = "const"         -> ExecConst(k, s.a)
           [] s.op = "print_shape"   -> ExecPrintShape(k, s.a)
           [] s.op = "print"         -> ExecPrint(k, s.a)
           [] s.op = "print_elapsed" -> ExecPrintElapsed(k, s.a)
           [] s.op = "plot"          -> ExecPlot(k, s.a)
           [] s.op = "time"          -> ExecTime(k, s.a)
           [] s.op = "load_digits"   -> ExecLoadDigits(k, s.a)
           [] s.op = "split"         -> ExecSplit(k, s.a)
           [] s.op = "scale"         -> ExecScale(k, s.a)
           [] s.op = "fit_transform" -> ExecFitTransform(k, s.a, d)
           [] s.op = "KMeans"        -> ExecNewKMeans(k, s.a)
           [] s.op = "fit"           -> ExecFit(k, s.a, d)
           [] s.op = "predict"       -> ExecPredict(k, s.a)
           [] s.op = "plot_model"    -> ExecPlotModel(k, s.a)
           [] s.op = "somNet"        -> ExecNewSom(k, s.a)
           [] s.op = "som_train"     -> ExecSomTrain(k, s.a, d)
           [] s.op = "som_save"      -> ExecSomSave(k, s.a)
           [] s.op = "som_graph"     -> ExecSomGraph(k, s.a)
           [] s.op = "som_project"   -> ExecSomProject(k, s.a)
           [] s.op = "DataLoader"    -> ExecNewLoader(k, s.a)
           [] s.op = "class"         -> ExecClassDef(k, s.a)
           [] s.op = "Autoencoder"   -> ExecNewNet(k, s.a)
           [] s.op = "train_loop"    -> ExecTrainLoop(k, d)
           [] s.op = "test_loop"     -> ExecTestLoop(k)
           [] s.op = "raise"         -> Raise(k, s.a.err)

\* mutant: an error of a statement is dropped and the next statement runs
RECURSIVE ExecBody_swallow(_, _, _, _)
ExecBody_swallow(k, body, i, d) ==
    IF i > Len(body) THEN k
    ELSE ExecBody_swallow([ExecStmt(k, body[i], d) EXCEPT !.err = ""], body, i + 1, d)

\* the statements body[i..] in order, up to the first that raises
RECURSIVE ExecBody(_, _, _, _)
ExecBody(k, body, i, d) ==
    IF i > Len(body) \/ k.err # "" THEN k
    ELSE ExecBody(ExecStmt(k, body[i], d), body, i + 1, d)

\* run_cell: compile the whole source, then run it; record the outcome
ExecCell(k, cell, d) ==
    LET syn == Compile(cell.lex)
        r   == IF syn # "" THEN Raise(k, syn) ELSE ExecBody(k, cell.body, 1, d)
    IN  [r EXCEPT !.next = k.next + 1,
                  !.done = Append(k.done, IF r.err = "" THEN "ok" ELSE r.err),
                  !.outs = IF r.err = "" THEN r.outs
                           ELSE Append(r.outs, [what |-> "error", args |-> <<r.err>>]),
                  !.err = ""]

(***************************************************************************)
(* The code cells of the notebooks: the lexical summary of the source      *)
(* lines of the cell and its statements.  The learning rates are kept as   *)
(* integers: LR in units of 1/1000, the SOM rate in units of 1/10000.      *)
(***************************************************************************)
\* Lab1 handwritten_digit_clustering.ipynb
KM_Cells ==
    <<
       (* code cell 1, lines 18-22 *)
       [ lex  |-> << <<0,0,0,0>>, <<0,0,0,0>>, <<0,0,0,0>>, <<0,0,0,0>>, <<0,0,0,0>> >>,
         body |-> << St("import", {}, [names |-> {"np"}]),
                   St("import", {}, [names |-> {"load_digits"}]),
                   St("import", {}, [names |-> {"KMeans"}]),
                   St("import", {}, [names |-> {"train_test_split"}]),
                   St("import", {}, [names |-> {"plot_images", "plot_clusters", "plot_centroids"}]) >> ],
       (* code cell 2, lines 39-41 *)
       [ lex  |-> << <<0,0,1,1>>, <<0,0,2,2>>, <<0,0,1,1>> >>,
         body |-> << St("load_digits", {"load_digits"}, [x |-> "X", y |-> "y"]),
                   St("print_shape", {"np", "X"}, [of |-> "X"]),
                   St("plot", {"plot_images", "X"}, [fn |-> "plot_images", args |-> <<"X">>]) >> ],
       (* code cell 3, lines 60-68 *)
       [ lex  |-> << <<0,0,1,1>>, <<0,0,0,0>>, <<2,0,1,1>>, <<0,0,2,2>>, <<0,0,1,1>>, <<0,0,0,0>>,
                  <<2,0,1,1>>, <<0,0,2,2>>, <<0,0,1,1>> >>,
         body |-> << St("split", {"train_test_split", "X", "y"}, [ts |-> IntSize(20)]),
                   St("print", {}, [of |-> {}]),
                   St("print_shape", {"np", "X_train"}, [of |-> "X_train"]),
                   St("plot", {"plot_images", "X_train"}, [fn |-> "plot_images", args |-> <<"X_train">>]),
                   St("print", {}, [of |-> {}]),
                   St("print_shape", {"np", "X_test"}, [of |-> "X_test"]),
                   St("plot", {"plot_images", "X_test"}, [fn |-> "plot_images", args |-> <<"X_test">>]) >> ],
       (* code cell 4, lines 92-94 *)
       [ lex  |-> << <<0,0,1,1>>, <<0,0,1,1>>, <<0,0,1,1>> >>,
         body |-> << St("KMeans", {"KMeans"}, [tgt |-> "kmeans_obj", n_clusters |-> 10, n_init |-> 50, max_iter |-> 100]),
                   St("fit", {"kmeans_obj", "X_train"}, [tgt |-> "clusters_train", obj |-> "kmeans_obj", arg |-> "X_train"]),
                   St("plot_model", {"plot_clusters", "clusters_train", "X_train"}, [fn |-> "plot_clusters", obj |-> "clusters_train", args |-> <<"X_train">>]) >> ],
       (* code cell 5, lines 112-114 *)
       [ lex  |-> << <<0,0,1,1>>, <<0,0,1,1>>, <<0,0,1,1>> >>,
         body |-> << St("predict", {"kmeans_obj", "X_test"}, [tgt |-> "clusters_test", obj |-> "kmeans_obj", arg |-> "X_test"]),
                   St("plot", {"plot_images", "X_test"}, [fn |-> "plot_images", args |-> <<"X_test">>]),
                   St("print", {"clusters_test"}, [of |-> {"clusters_test"}]) >> ],
       (* code cell 6, lines 123-123 *)
       [ lex  |-> << <<0,0,1,1>> >>,
         body |-> << St("plot_model", {"plot_centroids", "clusters_train", "clusters_test"}, [fn |-> "plot_centroids", obj |-> "clusters_train", args |-> <<"clusters_test">>]) >> ]
    >>

\* Lab1 Handwritten Digits Clustering by SOM.ipynb
SOM_Cells ==
    <<
       (* code cell 1, lines 18-22 *)
       [ lex  |-> << <<0,0,0,0>>, <<0,0,0,0>>, <<0,0,0,0>>, <<0,0,0,0>>, <<0,0,0,0>> >>,
         body |-> << St("import", {}, [names |-> {"load_digits"}]),
                   St("import", {}, [names |-> {"train_test_split"}]),
                   St("import", {}, [names |-> {"somNet"}]),
                   St("import", {}, [names |-> {"np"}]),
                   St("import", {}, [names |-> {"plot_2D_samples"}]) >> ],
       (* code cell 2, lines 42-43 *)
       [ lex  |-> << <<0,0,1,1>>, <<0,0,1,1>> >>,
         body |-> << St("load_digits", {"load_digits"}, [x |-> "X", y |-> "y"]),
                   St("split", {"train_test_split", "X", "y"}, [ts |-> IntSize(100)]) >> ],
       (* code cell 3, lines 63-65 *)
       [ lex  |-> << <<0,0,1,1>>, <<0,0,1,1>>, <<0,2,1,1>> >>,
         body |-> << St("somNet", {"somNet", "X_train"}, [tgt |-> "net", h |-> 20, w |-> 20, arg |-> "X_train"]),
                   St("som_train", {"net"}, [obj |-> "net", lr |-> 100, epochs |-> 10000]),
                   St("som_save", {"net"}, [obj |-> "net", file |-> "filename_weights"]) >> ],
       (* code cell 4, lines 82-83 *)
       [ lex  |-> << <<0,0,1,1>>, <<0,0,1,1>> >>,
         body |-> << St("som_graph", {"net"}, [obj |-> "net", fn |-> "nodes_graph"]),
                   St("som_graph", {"net"}, [obj |-> "net", fn |-> "diff_graph"]) >> ],
       (* code cell 5, lines 100-101 *)
       [ lex  |-> << <<0,0,2,2>>, <<0,0,1,1>> >>,
         body |-> << St("som_project", {"np", "net", "X_train"}, [tgt |-> "prj", obj |-> "net", arg |-> "X_train"]),
                   St("plot", {"plot_2D_samples", "prj", "y_train"}, [fn |-> "plot_2D_samples", args |-> <<"prj", "y_train">>]) >> ],
       (* code cell 6, lines 110-111 *)
       [ lex  |-> << <<0,0,2,2>>, <<0,0,1,1>> >>,
         body |-> << St("som_project", {"np", "net", "X_test"}, [tgt |-> "prj", obj |-> "net", arg |-> "X_test"]),
                   St("plot", {"plot_2D_samples", "prj", "y_test"}, [fn |-> "plot_2D_samples", args |-> <<"prj", "y_test">>]) >> ],
       (* code cell 7, empty *)
       [ lex  |-> <<  >>,
         body |-> << >> ]
    >>

\* Lab2 dimensionality reduction notebook
DR_Cells ==
    <<
       (* code cell 1, lines 17-23 *)
       [ lex  |-> << <<0,0,0,0>>, <<0,0,0,0>>, <<0,0,0,0>>, <<0,0,0,0>>, <<0,0,0,0>>, <<0,0,0,0>>,
                  <<0,0,0,0>> >>,
         body |-> << St("import", {}, [names |-> {"np"}]),
                   St("import", {}, [names |-> {"load_digits"}]),
                   St("import", {}, [names |-> {"PCA"}]),
                   St("import", {}, [names |-> {"scale"}]),
                   St("import", {}, [names |-> {"TSNE"}]),
                   St("import", {}, [names |-> {"plot_images", "plot_2D_samples"}]),
                   St("import", {}, [names |-> {"time"}]) >> ],
       (* code cell 2, lines 40-44 *)
       [ lex  |-> << <<0,0,1,1>>, <<0,0,0,0>>, <<0,0,2,2>>, <<0,0,1,1>>, <<0,0,2,2>> >>,
         body |-> << St("load_digits", {"load_digits"}, [x |-> "X", y |-> "y"]),
                   St("print_shape", {"np", "X"}, [of |-> "X"]),
                   St("plot", {"plot_images", "X"}, [fn |-> "plot_images", args |-> <<"X">>]),
                   St("print", {"y"}, [of |-> {"y"}]) >> ],
       (* code cell 3, lines 61-63 *)
       [ lex  |-> << <<0,0,1,1>>, <<0,0,2,2>>, <<0,0,1,1>> >>,
         body |-> << St("scale", {"scale", "X"}, [tgt |-> "X", arg |-> "X"]),
                   St("print_shape", {"np", "X"}, [of |-> "X"]),
                   St("plot", {"plot_images", "X"}, [fn |-> "plot_images", args |-> <<"X">>]) >> ],
       (* code cell 4, lines 79-85 *)
       [ lex  |-> << <<0,0,1,1>>, <<0,0,2,2>>, <<0,0,1,1>>, <<0,0,0,0>>, <<0,0,2,2>>, <<2,0,2,2>>,
                  <<2,0,1,1>> >>,
         body |-> << St("time", {"time"}, [tgt |-> "tic"]),
                   St("fit_transform", {"PCA", "X"}, [tgt |-> "X_reduced_pca", cls |-> "PCA", arg |-> "X", n_components |-> 2]),
                   St("time", {"time"}, [tgt |-> "tac"]),
                   St("print_shape", {"np", "X_reduced_pca"}, [of |-> "X_reduced_pca"]),
                   St("print_elapsed", {"tac", "tic"}, [hi |-> "tac", lo |-> "tic"]),
                   St("plot", {"plot_2D_samples", "X_reduced_pca", "y"}, [fn |-> "plot_2D_samples", args |-> <<"X_reduced_pca", "y">>]) >> ],
       (* code cell 5, lines 101-107 *)
       [ lex  |-> << <<0,0,1,1>>, <<0,0,2,2>>, <<0,0,1,1>>, <<0,0,0,0>>, <<0,0,2,2>>, <<2,0,2,2>>,
                  <<2,0,1,1>> >>,
         body |-> << St("time", {"time"}, [tgt |-> "tic"]),
                   St("fit_transform", {"TSNE", "X"}, [tgt |-> "X_reduced_tsne", cls |-> "TSNE", arg |-> "X", n_components |-> 2]),
                   St("time", {"time"}, [tgt |-> "tac"]),
                   St("print_shape", {"np", "X_reduced_tsne"}, [of |-> "X_reduced_tsne"]),
                   St("print_elapsed", {"tac", "tic"}, [hi |-> "tac", lo |-> "tic"]),
                   St("plot", {"plot_2D_samples", "X_reduced_tsne", "y"}, [fn |-> "plot_2D_samples", args |-> <<"X_reduced_tsne", "y">>]) >> ]
    >>

\* Lab3 autoencoder notebook
AE_Cell6 ==
    [ lex  |-> << <<0,0,1,1>>, <<0,0,2,2>>, <<0,0,0,0>>, <<0,0,1,1>>, <<0,0,1,1>>, <<0,0,1,1>>,
               <<0,0,0,0>>, <<0,0,0,0>>, <<0,0,1,1>>, <<0,0,2,2>>, <<0,0,2,2>>, <<0,0,1,1>>,
               <<0,0,1,1>>, <<0,0,1,1>>, <<0,0,0,0>>, <<0,0,1,1>>, <<0,0,1,1>>, <<0,0,1,1>>,
               <<5,0,2,1>>, <<0,0,0,0>>, <<2,0,2,2>>, <<0,0,1,1>> >>,
      body |-> << St("train_loop", {}, [a |-> 0]),
                St("print_elapsed", {"tac", "tic"}, [hi |-> "tac", lo |-> "tic"]),
                St("print", {"loss"}, [of |-> {"loss"}]),
                St("plot", {"plot_loss", "train_loss"}, [fn |-> "plot_loss", args |-> <<"train_loss">>]) >> ]
AE_Cells ==
    <<
       (* code cell 1, lines 20-30 *)
       [ lex  |-> << <<0,0,0,0>>, <<0,0,0,0>>, <<0,0,0,0>>, <<0,0,0,0>>, <<0,0,0,0>>, <<0,0,0,0>>,
                  <<0,0,0,0>>, <<0,0,0,0>>, <<0,0,0,0>>, <<0,0,0,0>>, <<0,0,0,0>> >>,
         body |-> << St("import", {}, [names |-> {"nn"}]),
                   St("import", {}, [names |-> {"optim"}]),
                   St("import", {}, [names |-> {"F"}]),
                   St("import", {}, [names |-> {"DataLoader"}]),
                   St("import", {}, [names |-> {"load_digits"}]),
                   St("import", {}, [names |-> {"train_test_split"}]),
                   St("import", {}, [names |-> {"np"}]),
                   St("import", {}, [names |-> {"time"}]),
                   St("import", {}, [names |-> {"plot_loss", "plot_images"}]) >> ],
       (* code cell 2, lines 49-51 *)
       [ lex  |-> << <<0,0,0,0>>, <<0,0,0,0>>, <<0,0,0,0>> >>,
         body |-> << St("const", {}, [tgt |-> "BS", v |-> BS]),
                   St("const", {}, [tgt |-> "EPOCHS", v |-> EPOCHS]),
                   St("const", {}, [tgt |-> "LR", v |-> 1]) >> ],
       (* code cell 3, lines 75-76 *)
       [ lex  |-> << <<0,0,1,1>>, <<0,0,2,2>> >>,
         body |-> << St("load_digits", {"load_digits"}, [x |-> "X", y |-> "y"]),
                   St("print_shape", {"np", "X"}, [of |-> "X"]) >> ],
       (* code cell 4, lines 103-108 *)
       [ lex  |-> << <<0,0,1,1>>, <<0,0,0,0>>, <<0,0,2,2>>, <<0,0,2,2>>, <<0,0,0,0>>, <<0,0,1,1>> >>,
         body |-> << St("split", {"train_test_split", "X", "y"}, [ts |-> IntSize(20)]),
                   St("print_shape", {"np", "X_train"}, [of |-> "X_train"]),
                   St("print_shape", {"np", "X_test"}, [of |-> "X_test"]),
                   St("DataLoader", {"DataLoader", "X_train", "BS"}, [tgt |-> "trainloader", arg |-> "X_train", bsname |-> "BS", bs |-> 0, shuffle |-> TRUE]) >> ],
       (* code cell 5, lines 141-165 *)
       [ lex  |-> << <<0,0,1,1>>, <<0,0,1,1>>, <<0,0,2,2>>, <<0,0,0,0>>, <<0,0,0,0>>, <<0,0,1,1>>,
                  <<0,0,1,1>>, <<0,0,0,0>>, <<0,0,1,1>>, <<0,0,1,1>>, <<0,0,0,0>>, <<0,0,1,1>>,
                  <<0,0,2,2>>, <<0,0,2,2>>, <<0,0,2,2>>, <<0,0,2,2>>, <<0,0,0,0>>, <<0,0,0,0>>,
                  <<0,0,1,1>>, <<0,0,2,2>>, <<0,0,2,2>>, <<0,0,0,0>>, <<0,0,0,0>>, <<0,0,1,1>>,
                  <<0,0,1,1>> >>,
         body |-> << St("class", {"nn"}, [tgt |-> "Autoencoder"]),
                   St("Autoencoder", {"Autoencoder"}, [tgt |-> "net"]),
                   St("print", {"net"}, [of |-> {"net"}]) >> ],
       AE_Cell6,
       (* code cell 7, lines 256-261 *)
       [ lex  |-> << <<0,0,1,1>>, <<0,0,0,0>>, <<0,0,0,0>>, <<0,0,1,1>>, <<0,0,2,2>>, <<0,0,3,3>> >>,
         body |-> << St("DataLoader", {"DataLoader", "X_test"}, [tgt |-> "testloader", arg |-> "X_test", bsname |-> "", bs |-> 20, shuffle |-> FALSE]),
                   St("test_loop", {"testloader", "plot_images", "net"}, [a |-> 0]) >> ],
       (* code cell 8, empty *)
       [ lex  |-> <<  >>,
         body |-> << >> ]
    >>

(***************************************************************************)
(* Spec: a notebook is run top to bottom in its own kernel.  "Run All"     *)
(* stops at the first cell that fails; run by hand, cell after cell, the   *)
(* cells after a failing one are still run.  One notebook is run in a      *)
(* behaviour.                                                              *)
(***************************************************************************)
Notebooks == {"kmeans", "som", "dimred", "autoenc"}

Cells(nb) ==
    CASE nb = "kmeans"  -> KM_Cells
      [] nb = "som"     -> SOM_Cells
      [] nb = "dimred"  -> DR_Cells
      [] nb = "autoenc" -> AE_Cells

Failed(k)  == \E i \in 1..Len(k.done) : k.done[i] # "ok"
Halted(k)  == runMode = "run_all" /\ Failed(k)
Finished(nb) == kernels[nb].next > Len(Cells(nb))

RunCell(nb) ==
    /\ \A o \in Notebooks \ {nb} : kernels[o].next = 1
    /\ ~Finished(nb)
    /\ ~Halted(kernels[nb])
    /\ \E d \in 0..MaxTick :
          LET k == ExecCell(kernels[nb], Cells(nb)[kernels[nb].next], d)
          IN  /\ kernels' = [kernels EXCEPT ![nb] = k]
              /\ files' = files \cup k.wrote
    /\ UNCHANGED runMode
    /\ UNCHANGED netVars
    /\ UNCHANGED <<trVars, scall, libVars>>

NetIdle ==
    /\ net = [init |-> 0, steps |-> 0]
    /\ xin = None
    /\ xloc = None
    /\ fpc = "idle"
    /\ applied = <<>>
    /\ ret = None

Init ==
    /\ \E r \in 0..MaxRng : kernels = [nb \in Notebooks |-> FreshKernel(r)]
    /\ files = {}
    /\ runMode \in {"run_all", "by_hand"}
    /\ NetIdle
    /\ tpc = "idle"
    /\ titer = <<>>
    /\ seen = <<>>
    /\ scall = <<>>
    /\ LibIdle

Next == \E nb \in Notebooks : RunCell(nb)

Spec == Init /\ [][Next]_vars

(***************************************************************************)
(* SpecFail: the runs of Spec in which, besides, one library call of one   *)
(* cell may fail for a reason outside the notebook (memory, a missing data *)
(* file, an interrupt): the call raises instead of returning.  The cells   *)
(* have no try statement, so the statement that raises is the last one of  *)
(* its cell to run.                                                        *)
(***************************************************************************)
LibraryCalls ==
    {"load_digits", "split", "scale", "fit_transform", "KMeans", "fit", "predict", "plot_model",
     "somNet", "som_train", "som_save", "som_graph", "som_project", "DataLoader", "Autoencoder",
     "train_loop", "test_loop", "plot"}

\* the cell in which the call of statement at raises (at = 0: no call does)
Failing(cell, at) ==
    [cell EXCEPT !.body = [i \in 1..Len(cell.body) |->
        IF i = at THEN St("raise", cell.body[i].reads, [err |-> "LibraryError"]) ELSE cell.body[i]]]

RunCellFailing(nb) ==
    /\ \A o \in Notebooks \ {nb} : kernels[o].next = 1
    /\ ~Finished(nb)
    /\ ~Halted(kernels[nb])
    /\ \E d \in 0..MaxTick, at \in 0..Len(Cells(nb)[kernels[nb].next].body) :
          /\ at # 0 => /\ ~Failed(kernels[nb])
                       /\ Cells(nb)[kernels[nb].next].body[at].op \in LibraryCalls
          /\ LET k == ExecCell(kernels[nb], Failing(Cells(nb)[kernels[nb].next], at), d)
             IN  /\ kernels' = [kernels EXCEPT ![nb] = k]
                 /\ files' = files \cup k.wrote
    /\ UNCHANGED runMode
    /\ UNCHANGED netVars
    /\ UNCHANGED <<trVars, scall, libVars>>

NextFail == \E nb \in Notebooks : RunCellFailing(nb)

SpecFail == Init /\ [][NextFail]_vars

(***************************************************************************)
(* SpecTrain: the statements of the training cell, from criterion = ... to *)
(* tac = ..., run one at a time in the kernel of the autoencoder notebook  *)
(* after the cells above the training cell.  tpc is the statement to run   *)
(* next; titer holds range(EPOCHS) (its stop and the next value it hands   *)
(* out) and the iterator of trainloader; seen records the number of passes *)
(* of the epoch loop that ran to their last statement and, for the pass    *)
(* under way, the loss of every mini-batch and the rows of every           *)
(* mini-batch handed out.                                                  *)
(***************************************************************************)
AE_TrainCell == CHOOSE i \in DOMAIN AE_Cells : AE_Cells[i] = AE_Cell6

\* the cells i..n of a notebook, run in order
RECURSIVE RunCells(_, _, _, _)
RunCells(k, cells, i, n) ==
    IF i > n THEN k ELSE RunCells(ExecCell(k, cells[i], 0), cells, i + 1, n)

TK == kernels["autoenc"]

\* the kernel after a statement, and the statement that follows it
TrainRun(k2, nextpc) ==
    /\ kernels' = [kernels EXCEPT !["autoenc"] = k2]
    /\ tpc' = IF k2.err # "" THEN "failed" ELSE nextpc
    /\ UNCHANGED <<files, runMode, scall, libVars>>
    /\ UNCHANGED netVars

\* a statement of the cell that only changes the kernel: the statement at pc
\* leaves the kernel k2 and is followed by the statement at nextpc
StPlain(pc, k2, nextpc) ==
    /\ tpc = pc
    /\ TrainRun(k2, nextpc)
    /\ UNCHANGED <<titer, seen>>

\* the straight-line statements of the cell, in the order of the cell
StStraight ==
    \/ StPlain("criterion", TrainCriterion(TK), "optimizer")
    \/ StPlain("optimizer", TrainOptimizer(TK), "tic")
    \/ StPlain("tic", TrainTic(TK), "train_loss")
    \/ StPlain("train_loss", TrainLossInit(TK), "range")
    \/ StPlain("running_loss", TrainRunningInit(TK), "iter")
    \/ StPlain("zero_grad", TrainZeroGrad(TK), "outputs")
    \/ StPlain("outputs", ExecForward(TK, "train.forward"), "loss")
    \/ StPlain("backward", TrainBackward(TK), "step")
    \/ StPlain("step", TrainStep(TK), "accum")
    \/ StPlain("accum", TrainAccum(TK), "for_batch")
    \/ StPlain("average", TrainAverage(TK), "append")

\* range(EPOCHS), evaluated once when the for statement is entered
StRange ==
    /\ tpc = "range"
    /\ IF "EPOCHS" \in DOMAIN TK.ns
       THEN /\ TrainRun(TK, "for_epoch")
            /\ titer' = [titer EXCEPT !.stop = TK.ns["EPOCHS"].v, !.epoch = 0]
       ELSE /\ TrainRun(Raise(TK, "NameError"), "for_epoch")
            /\ UNCHANGED titer
    /\ UNCHANGED seen

\* for epoch in range(EPOCHS): the next value, or the end of the loop
StForEpoch ==
    /\ tpc = "for_epoch"
    /\ IF titer.epoch < titer.stop
       THEN /\ TrainRun(Set(TK, "epoch", Num(titer.epoch)), "running_loss")
            /\ titer' = [titer EXCEPT !.epoch = @ + 1]
            /\ seen' = [seen EXCEPT !.losses = <<>>, !.batches = <<>>]
       ELSE /\ TrainRun(TK, "tac")
            /\ UNCHANGED <<titer, seen>>

\* iter(trainloader): with shuffle=True a fresh permutation is drawn
StIterLoader ==
    /\ tpc = "iter"
    /\ IF "trainloader" \in DOMAIN TK.ns
       THEN /\ TrainRun(IF TK.ns["trainloader"].shuffle THEN Draw(TK) ELSE TK, "for_batch")
            /\ titer' = [titer EXCEPT !.it = LoaderIter(TK.ns["trainloader"], TK.rng)]
       ELSE /\ TrainRun(Raise(TK, "NameError"), "for_batch")
            /\ UNCHANGED titer
    /\ UNCHANGED seen

\* for batch in trainloader: the next mini-batch, or the end of the loop
StForBatch ==
    /\ tpc = "for_batch"
    /\ IF IterDone(TK.ns["trainloader"], titer.it)
       THEN /\ TrainRun(TK, "average")
            /\ UNCHANGED <<titer, seen>>
       ELSE /\ TrainRun(Set(TK, "batch", IterBatch(TK.ns["trainloader"], titer.it)), "zero_grad")
            /\ titer' = [titer EXCEPT !.it = IterAdvance(TK.ns["trainloader"], @)]
            /\ seen' = [seen EXCEPT !.batches =
                           Append(@, IterBatch(TK.ns["trainloader"], titer.it).rows)]

StLoss ==
    /\ tpc = "loss"
    /\ TrainRun(TrainLoss(TK), "backward")
    /\ seen' = IF TrainLoss(TK).err # "" THEN seen
               ELSE [seen EXCEPT !.losses = Append(@, TrainLoss(TK).ns["loss"].v)]
    /\ UNCHANGED titer

\* train_loss.append(loss), the last statement of a pass of the epoch loop
StAppend ==
    /\ tpc = "append"
    /\ TrainRun(TrainAppend(TK), "for_epoch")
    /\ seen' = [seen EXCEPT !.passes = @ + 1]
    /\ UNCHANGED titer

StTac ==
    /\ tpc = "tac"
    /\ \E d \in 0..MaxTick : TrainRun(TrainTac(Tick(TK, d)), "done")
    /\ UNCHANGED <<titer, seen>>

InitTrain ==
    /\ \E r \in 0..MaxSeed :
          kernels = [nb \in Notebooks |->
                        IF nb = "autoenc"
                        THEN RunCells(FreshKernel(r), AE_Cells, 1, AE_TrainCell - 1)
                        ELSE FreshKernel(r)]
    /\ files = {}
    /\ runMode = "by_hand"
    /\ NetIdle
    /\ scall = <<>>
    /\ LibIdle
    /\ tpc = "criterion"
    /\ titer = [stop |-> 0, epoch |-> 0, it |-> [order |-> <<>>, pos |-> 0]]
    /\ seen = [passes |-> 0, losses |-> <<>>, batches |-> <<>>]

NextTrain ==
    \/ StStraight \/ StRange \/ StForEpoch \/ StIterLoader \/ StForBatch
    \/ StLoss \/ StAppend \/ StTac

SpecTrain == InitTrain /\ [][NextTrain]_vars

(***************************************************************************)
(* SpecTimed: every run of Spec and every run of SpecTrain, for the        *)
(* properties that speak of all the cells of all the notebooks, the        *)
(* statements of the training cell included.                               *)
(***************************************************************************)
NextTimed == (tpc = "idle" /\ Next) \/ NextTrain

SpecTimed == (Init \/ InitTrain) /\ [][NextTimed]_vars

(***************************************************************************)
(* SpecSplit: one call of train_test_split on a data set of n labelled     *)
(* samples, for every n up to MaxN, every integer test_size 0..MaxN and    *)
(* every float test_size a/b with b in 2..MaxDen and a in 0..b+1.          *)
(***************************************************************************)
TestSizes ==
    {IntSize(v) : v \in 0..MaxN}
      \cup UNION {{FloatSize(a, b) : a \in 0..(b + 1)} : b \in 2..MaxDen}

InitSplit ==
    /\ \E n \in 1..MaxN, ts \in TestSizes, r \in 0..MaxRng :
          scall = [X  |-> Arr([i \in 1..n |-> i], NFeatures, <<>>),
                   y  |-> Arr([i \in 1..n |-> Label(i)], 0, <<>>),
                   ts |-> ts, r |-> r, pc |-> "call", err |-> "", out |-> <<>>]
    /\ kernels = <<>>
    /\ files = {}
    /\ runMode = "none"
    /\ NetIdle
    /\ tpc = "idle"
    /\ titer = <<>>
    /\ seen = <<>>
    /\ LibIdle

CallSplit ==
    /\ scall.pc = "call"
    /\ scall' = IF SplitError(scall.X, scall.y, scall.ts) # ""
                THEN [scall EXCEPT !.pc = "raised",
                                   !.err = SplitError(scall.X, scall.y, scall.ts)]
                ELSE [scall EXCEPT !.pc = "returned",
                                   !.out = train_test_split(scall.X, scall.y, scall.ts, scall.r)]
    /\ UNCHANGED <<kernels, files, runMode, libVars>>
    /\ UNCHANGED trVars
    /\ UNCHANGED netVars

NextSplit == CallSplit

SpecSplit == InitSplit /\ [][NextSplit]_vars

(***************************************************************************)
(* SpecKMeans: kmeans_obj = KMeans(n_clusters, n_init, max_iter) with the  *)
(* arguments of the notebook, kmeans_obj.fit(X) and kmeans_obj.predict(T)  *)
(* on small data sets.  A sample is a point on a line (an integer); a      *)
(* cluster centre is the mean s/c of c samples of sum s.  fit makes n_init *)
(* runs of the k-means algorithm, each from the centres its own seed       *)
(* draws among the samples, and keeps the run of least inertia; a run      *)
(* alternates the assignment of every sample to its closest centre and the *)
(* update of every centre to the mean of its samples until the assignment  *)
(* no longer changes, the centres move by no more than the tolerance, or   *)
(* max_iter iterations were made.                                          *)
(* Distances are kept in units of 1/KMDen, inertia in units of 1/KMDen^2.  *)
(***************************************************************************)
KMParams == KM_Cells[4].body[1].a

KMDen == 60

RECURSIVE SumSeq(_)
SumSeq(s) == IF s = <<>> THEN 0 ELSE s[1] + SumSeq(Tail(s))

\* the position of the centre a and its distance to the sample x
CenterAt(a) == a.s * (KMDen \div a.c)
Dist(x, a) ==
    IF x * KMDen >= CenterAt(a) THEN x * KMDen - CenterAt(a) ELSE CenterAt(a) - x * KMDen

\* argmin: the label (counted from 0) of the first of the closest centres
Nearest(x, centers) ==
    (CHOOSE j \in 1..Len(centers) :
        /\ \A i \in 1..Len(centers) : Dist(x, centers[j]) <= Dist(x, centers[i])
        /\ \A i \in 1..(j - 1) : Dist(x, centers[j]) < Dist(x, centers[i])) - 1

\* the assignment step: one label per sample, in the order of the samples
EStep(X, centers) == [i \in 1..Len(X) |-> Nearest(X[i], centers)]

\* a cluster without samples takes the sample that is farthest from its
\* centre (the first of them), one sample per empty cluster
RECURSIVE Relocate(_, _, _, _)
Relocate(X, labels, centers, j) ==
    IF j > Len(centers) THEN labels
    ELSE IF \E i \in 1..Len(X) : labels[i] = j - 1 THEN Relocate(X, labels, centers, j + 1)
    ELSE LET far == CHOOSE i \in 1..Len(X) :
                       /\ \A o \in 1..Len(X) :
                             Dist(X[i], centers[labels[i] + 1]) >= Dist(X[o], centers[labels[o] + 1])
                       /\ \A o \in 1..(i - 1) :
                             Dist(X[i], centers[labels[i] + 1]) > Dist(X[o], centers[labels[o] + 1])
         IN  Relocate(X, [labels EXCEPT ![far] = j - 1], centers, j + 1)

\* the update step: every centre becomes the mean of its samples
MStep(X, labels, centers) ==
    LET moved == Relocate(X, labels, centers, 1) IN
    [j \in 1..Len(centers) |->
        IF \E i \in 1..Len(X) : moved[i] = j - 1
        THEN [s |-> SumSeq([i \in 1..Len(X) |-> IF moved[i] = j - 1 THEN X[i] ELSE 0]),
              c |-> Cardinality({i \in 1..Len(X) : moved[i] = j - 1})]
        ELSE centers[j]]

\* the centres moved by no more than the tolerance: the sum of their squared
\* moves is at most tol = 1/10000 times the variance of the samples
WithinTol(X, new, old) ==
    SumSeq([j \in 1..Len(new) |->
               (CenterAt(new[j]) - CenterAt(old[j])) * (CenterAt(new[j]) - CenterAt(old[j]))])
      <= (KMDen * KMDen * (Len(X) * SumSeq([i \in 1..Len(X) |-> X[i] * X[i]]) - SumSeq(X) * SumSeq(X)))
            \div (10000 * Len(X) * Len(X))

\* the sum of the squared distances of the samples to their centres
Inertia(X, labels, centers) ==
    SumSeq([i \in 1..Len(X) |-> Dist(X[i], centers[labels[i] + 1]) * Dist(X[i], centers[labels[i] + 1])])

\* mutant: one centre more than n_clusters
InitCenters_extra(X, nc, seed) ==
    [j \in 1..(nc + 1) |-> [s |-> X[Perm(seed, Len(X))[(j % nc) + 1]], c |-> 1]]

\* the centres a seed draws: n_clusters different samples
InitCenters(X, nc, seed) == [j \in 1..nc |-> [s |-> X[Perm(seed, Len(X))[j]], c |-> 1]]

\* mutant: every run replaces the run kept so far
KMBetter_last(inertia, best) == TRUE

\* a run is kept when it is the first or has less inertia than the run kept
KMBetter(inertia, best) == best = <<>> \/ inertia < best.inertia

\* mutant: the labels of predict are those of the training samples
KMeansPredict_train(o, T) == [i \in 1..Len(T) |-> o.labels_[i]]

\* predict: the label of the closest centre of the fitted model
KMeansPredict(o, T) == EStep(T, o.cluster_centers_)

KMData(s, n) == [i \in 1..n |-> 5 * i + ((i * i * (s + 1)) % 5)]
KMTest(s)    == [i \in 1..MaxTest |-> 17 * i + 3 * s]

InitKMeans ==
    /\ \E n \in (KMParams.n_clusters - 1)..(KMParams.n_clusters + MaxExtra),
          s \in 0..MaxXSeed, r \in 0..MaxRng :
          km = [ X |-> KMData(s, n), T |-> KMTest(s), r |-> r,
                 n_clusters |-> KMParams.n_clusters, n_init |-> KMParams.n_init,
                 max_iter |-> KMParams.max_iter,
                 pc |-> "fit", err |-> "", run |-> 0, iter |-> 0, strict |-> FALSE,
                 centers |-> <<>>, labels |-> <<>>, labels_old |-> <<>>,
                 best |-> <<>>, runs |-> <<>>,
                 labels_ |-> <<>>, cluster_centers_ |-> <<>>, inertia_ |-> -1, pred |-> <<>> ]
    /\ som = <<>>
    /\ kernels = <<>>
    /\ files = {}
    /\ runMode = "none"
    /\ NetIdle
    /\ tpc = "idle"
    /\ titer = <<>>
    /\ seen = <<>>
    /\ scall = <<>>

\* what a library call leaves alone: the kernels and the training cell
LibFrame ==
    /\ UNCHANGED <<kernels, files, runMode, scall>>
    /\ UNCHANGED trVars
    /\ UNCHANGED netVars

\* fit(X): the data are checked, then the runs start
KMFit ==
    /\ km.pc = "fit"
    /\ km' = IF Len(km.X) < km.n_clusters
             THEN [km EXCEPT !.pc = "raised", !.err = "ValueError: n_samples < n_clusters"]
             ELSE [km EXCEPT !.pc = "run_init", !.run = 0, !.best = <<>>]
    /\ UNCHANGED som
    /\ LibFrame

\* a run starts from the centres of its seed
KMRunInit ==
    /\ km.pc = "run_init"
    /\ km' = [km EXCEPT !.pc = "lloyd", !.iter = 0, !.strict = FALSE,
                        !.centers = InitCenters(km.X, km.n_clusters, km.r + km.run),
                        !.labels_old = [i \in 1..Len(km.X) |-> -1],
                        !.labels = [i \in 1..Len(km.X) |-> -1]]
    /\ UNCHANGED som
    /\ LibFrame

\* an iteration, first half: the assignment of the samples
KMAssign ==
    /\ km.pc = "lloyd"
    /\ km' = [km EXCEPT !.pc = "update", !.labels = EStep(km.X, km.centers)]
    /\ UNCHANGED som
    /\ LibFrame

\* an iteration, second half: the update of the centres and the test of
\* convergence (same assignment as in the iteration before, or centres
\* that moved by no more than the tolerance)
KMUpdate ==
    /\ km.pc = "update"
    /\ LET centers == MStep(km.X, km.labels, km.centers)
           same    == km.labels = km.labels_old
           still   == WithinTol(km.X, centers, km.centers)
       IN  km' = [km EXCEPT !.centers = centers, !.iter = @ + 1,
                            !.strict = same,
                            !.labels_old = IF same \/ still THEN @ ELSE km.labels,
                            !.pc = IF same \/ still \/ km.iter + 1 >= km.max_iter
                                   THEN "run_end" ELSE "lloyd"]
    /\ UNCHANGED som
    /\ LibFrame

\* the end of a run: its labels, its inertia, and whether it is kept
KMRunEnd ==
    /\ km.pc = "run_end"
    /\ LET labels  == IF km.strict THEN km.labels ELSE EStep(km.X, km.centers)
           inertia == Inertia(km.X, labels, km.centers)
           this    == [seed |-> km.r + km.run, inertia |-> inertia, labels |-> labels,
                       centers |-> km.centers, n_iter |-> km.iter]
       IN  km' = [km EXCEPT !.labels = labels,
                            !.best = IF KMBetter(inertia, km.best) THEN this ELSE @,
                            !.runs = Append(@, this),
                            !.run = @ + 1,
                            !.pc = IF km.run + 1 >= km.n_init THEN "fit_return" ELSE "run_init"]
    /\ UNCHANGED som
    /\ LibFrame

\* fit returns: the attributes of the model are those of the run kept
KMFitReturn ==
    /\ km.pc = "fit_return"
    /\ km' = [km EXCEPT !.pc = "fitted", !.labels_ = km.best.labels,
                        !.cluster_centers_ = km.best.centers, !.inertia_ = km.best.inertia]
    /\ UNCHANGED som
    /\ LibFrame

\* predict(T) on the fitted model
KMPredict ==
    /\ km.pc = "fitted"
    /\ km' = [km EXCEPT !.pc = "predicted", !.pred = KMeansPredict(km, km.T)]
    /\ UNCHANGED som
    /\ LibFrame

NextKMeans == KMFit \/ KMRunInit \/ KMAssign \/ KMUpdate \/ KMRunEnd \/ KMFitReturn \/ KMPredict

SpecKMeans == InitKMeans /\ [][NextKMeans]_vars

(***************************************************************************)
(* SpecSom: net.project(X_train) and net.project(X_test) of the SOM        *)
(* notebook on the trained 20x20 network, one sample at a time, each       *)
(* followed by plot_2D_samples(prj, y_...).  A sample and the weights of a *)
(* node are vectors of two integers.  nodeList holds the nodes in the      *)
(* order somNet builds them (x outermost); the position of node (x, y) on  *)
(* the hexagonal grid is (x + (y mod 2)/2, y*sqrt(3)/2), kept here as      *)
(* <<2x + (y mod 2), y>>.  som is <<>> outside SpecSom.                    *)
(***************************************************************************)
SomParams == SOM_Cells[3].body[1].a

\* the node at index n (from 1) of nodeList
SomNodeXY(n) == <<(n - 1) \div SomParams.h, (n - 1) % SomParams.h>>

coor_to_hex(x, y) == <<2 * x + (y % 2), y>>

\* the weights of the nodes after train, from the seed of the training
SomWeights(seed) ==
    [n \in 1..(SomParams.h * SomParams.w) |->
        <<(7 * n + 5 * seed) % 23, (n * n + 3 * seed + (n \div 20)) % 19>>]

\* squared Euclidean distance of a node's weights to a sample
get_distance(wt, vec) ==
    (wt[1] - vec[1]) * (wt[1] - vec[1]) + (wt[2] - vec[2]) * (wt[2] - vec[2])

\* mutant: the first node of the list is returned
find_bmu_first(W, vec, lo, hi) == lo

\* for node in nodeList: if dist < minVal: minVal = dist; bmuVec = node
\* the first node of nodeList[lo..hi] at the least distance, found by halves
RECURSIVE find_bmu(_, _, _, _)
find_bmu(W, vec, lo, hi) ==
    IF lo = hi THEN lo
    ELSE LET a == find_bmu(W, vec, lo, (lo + hi) \div 2)
             b == find_bmu(W, vec, (lo + hi) \div 2 + 1, hi)
         IN  IF get_distance(W[b], vec) < get_distance(W[a], vec) THEN b ELSE a

\* the samples and their labels handed to project and to plot_2D_samples
SomData(s, n) == [i \in 1..n |-> <<(5 * i + 3 * s) % 23, (7 * i * i + s) % 19>>]
SomLabels(s, n) == [i \in 1..n |-> (i + s) % 10]

InitSom ==
    /\ \E ws \in 0..MaxWSeed, xs \in 0..MaxXSeed :
          som = [ W       |-> SomWeights(ws),
                  X_train |-> SomData(xs, MaxTest + 1),
                  y_train |-> SomLabels(xs, MaxTest + 1),
                  X_test  |-> SomData(xs + 1, MaxTest),
                  y_test  |-> SomLabels(xs + 1, MaxTest),
                  pc      |-> "cell5",
                  arg     |-> "",
                  bmuList |-> <<>>,
                  prj     |-> <<>>,
                  plots   |-> <<>> ]
    /\ km = <<>>
    /\ kernels = <<>>
    /\ files = {}
    /\ runMode = "none"
    /\ NetIdle
    /\ tpc = "idle"
    /\ titer = <<>>
    /\ seen = <<>>
    /\ scall = <<>>

\* net.project(X_train), net.project(X_test): the call
SomProjectCall ==
    /\ som # <<>>
    /\ som.pc \in {"cell5", "cell6"}
    /\ som' = [som EXCEPT !.arg = IF som.pc = "cell5" THEN "X_train" ELSE "X_test",
                          !.bmuList = <<>>,
                          !.pc = "project"]
    /\ UNCHANGED km
    /\ LibFrame

\* for i in range(array.shape[0]): bmuList.append(find_bmu(array[i]).pos)
SomProjectRow ==
    /\ som # <<>>
    /\ som.pc = "project"
    /\ Len(som.bmuList) < Len(som[som.arg])
    /\ LET vec == som[som.arg][Len(som.bmuList) + 1]
           n   == find_bmu(som.W, vec, 1, Len(som.W))
       IN  som' = [som EXCEPT !.bmuList = Append(@, coor_to_hex(SomNodeXY(n)[1], SomNodeXY(n)[2]))]
    /\ UNCHANGED km
    /\ LibFrame

\* prj = np.array(net.project(...))
SomProjectReturn ==
    /\ som # <<>>
    /\ som.pc = "project"
    /\ Len(som.bmuList) = Len(som[som.arg])
    /\ som' = [som EXCEPT !.prj = som.bmuList, !.pc = "plot"]
    /\ UNCHANGED km
    /\ LibFrame

\* plot_2D_samples(prj, y_train), plot_2D_samples(prj, y_test)
SomPlot ==
    /\ som # <<>>
    /\ som.pc = "plot"
    /\ LET y == IF som.arg = "X_train" THEN som.y_train ELSE som.y_test
       IN  som' = [som EXCEPT !.plots = Append(@, [of |-> som.arg, prj |-> som.prj, y |-> y]),
                              !.pc = IF som.arg = "X_train" THEN "cell6" ELSE "done"]
    /\ UNCHANGED km
    /\ LibFrame

NextSom == SomProjectCall \/ SomProjectRow \/ SomProjectReturn \/ SomPlot

SpecSom == InitSom /\ [][NextSom]_vars

(***************************************************************************)
(* C1  Autoencoder.forward applies exactly the four linear layers enc1,    *)
(* enc2, dec1, dec2 in this order, of widths 64->32->10->32->64, each      *)
(* followed by relu: no call on an input of width 64 raises a shape error, *)
(* at every position of forward the layers applied so far are the prefix   *)
(* of that chain (the output width of a layer is the input width of the    *)
(* next), every activation is componentwise >= 0, and the returned value   *)
(* has width 64, the width of the argument.                                *)
(***************************************************************************)
C1_Chain ==
    << [layer |-> "enc1", inw |-> 64, outw |-> 32],
       [layer |-> "enc2", inw |-> 32, outw |-> 10],
       [layer |-> "dec1", inw |-> 10, outw |-> 32],
       [layer |-> "dec2", inw |-> 32, outw |-> 64] >>

C1_Done(pc) ==
    CASE pc = "fwd_enc1" -> 0
      [] pc = "fwd_enc2" -> 1
      [] pc = "fwd_dec1" -> 2
      [] pc = "fwd_dec2" -> 3
      [] OTHER -> 4

C1_ForwardChain ==
    /\ fpc # "raised"
    /\ fpc \in {"fwd_enc1", "fwd_enc2", "fwd_dec1", "fwd_dec2", "fwd_ret", "returned"} =>
          /\ Len(xin) = 64
          /\ applied = SubSeq(C1_Chain, 1, C1_Done(fpc))
          /\ Len(xloc) = (IF applied = <<>> THEN 64 ELSE applied[Len(applied)].outw)
          /\ applied # <<>> => \A j \in 1..Len(xloc) : xloc[j] >= 0
    /\ fpc = "returned" => Len(ret) = 64 /\ Len(ret) = Len(xin)

C1_Witness ==
    /\ fpc = "returned"
    /\ Len(xin) = 64
    /\ Len(applied) = 4
    /\ Len(ret) = 64
    /\ \E j \in 1..64 : ret[j] > 0


(***************************************************************************)
(* C2  The epoch loop of the training cell makes exactly EPOCHS passes and *)
(* ends: at every statement len(train_loss) is the number of passes that   *)
(* ran to their last statement, that number is the number of values        *)
(* range(EPOCHS) has handed out (less the pass under way), never more than *)
(* EPOCHS, no statement raises, and once the loop is left                  *)
(* len(train_loss) = EPOCHS.                                               *)
(***************************************************************************)
C2_InPass ==
    {"running_loss", "iter", "for_batch", "zero_grad", "outputs", "loss", "backward",
     "step", "accum", "average", "append"}

RECURSIVE C3_Sum(_)
C3_Sum(s) == IF s = <<>> THEN 0 ELSE s[1] + C3_Sum(Tail(s))

C4_Rows(batches) == UNION {{b[i] : i \in 1..Len(b)} : b \in {batches[j] : j \in 1..Len(batches)}}

C5_Net(k) == k.heap[k.ns["net"].id]

C5_Grad(k) == << [rows |-> k.ns["batch"].rows, steps |-> C5_Net(k).steps, v |-> k.ns["loss"].v] >>

C6_TestSize(nb) == IF nb = "som" THEN 100 ELSE 20

C6_RowSet(a) == {a.rows[i] : i \in 1..Len(a.rows)}

C6_SplitPartitions ==
    \A nb \in {"kmeans", "som", "autoenc"} :
        "X_train" \in DOMAIN kernels[nb].ns =>
            LET ns == kernels[nb].ns
                tr == ns["X_train"]
                te == ns["X_test"]
            IN  /\ Len(te.rows) = C6_TestSize(nb)
                /\ Len(tr.rows) = 1797 - C6_TestSize(nb)
                /\ Cardinality(C6_RowSet(te)) = Len(te.rows)
                /\ Cardinality(C6_RowSet(tr)) = Len(tr.rows)
                /\ C6_RowSet(tr) \cap C6_RowSet(te) = {}
                /\ C6_RowSet(tr) \cup C6_RowSet(te) = 1..1797
                /\ tr.cols = 64 /\ te.cols = 64
                /\ Len(ns["y_train"].rows) = Len(tr.rows)
                /\ Len(ns["y_test"].rows) = Len(te.rows)
                /\ \A i \in 1..Len(tr.rows) : ns["y_train"].rows[i] = ns["y"].rows[tr.rows[i]]
                /\ \A i \in 1..Len(te.rows) : ns["y_test"].rows[i] = ns["y"].rows[te.rows[i]]

C6_Witness ==
    /\ "X_train" \in DOMAIN kernels["autoenc"].ns
    /\ Len(kernels["autoenc"].ns["X_train"].rows) = 1777
    /\ Len(kernels["autoenc"].ns["X_test"].rows) = 20
    /\ kernels["autoenc"].ns["X_train"].rows[1] # 21

C8_QueryFns == {"KMeans.predict", "nodes_graph", "diff_graph", "somNet.project", "test.forward"}

C8_LinearRun ==
    \A nb \in Notebooks :
        LET k == kernels[nb] IN
        /\ \A i \in 1..Len(k.calls) : k.calls[i].fn \in C8_QueryFns => k.calls[i].trained
        /\ \A i \in 1..Len(k.done) : k.done[i] # "NameError"
        /\ (Finished(nb) \/ Halted(k)) => \A i \in 1..Len(k.done) : k.done[i] = "ok"

(***************************************************************************)
(* C9  The training cell of the autoencoder notebook, run as written,      *)
(* fails with a syntax error (unterminated string literal) before any of   *)
(* its statements runs: the run of the cell leaves the names, the objects  *)
(* (the weights of net, no optimizer step), the random generator, the      *)
(* clock and the library calls of the kernel as they were, so train_loss,  *)
(* tic and tac are not assigned by it.                                     *)
(***************************************************************************)

C9_TrainCellFails ==
    [][ (kernels["autoenc"].next = AE_TrainCell /\ kernels'["autoenc"].next # AE_TrainCell) =>
          /\ kernels'["autoenc"].done[AE_TrainCell] = "SyntaxError: EOL while scanning string literal"
          /\ kernels'["autoenc"].ns = kernels["autoenc"].ns
          /\ kernels'["autoenc"].heap = kernels["autoenc"].heap
          /\ kernels'["autoenc"].calls = kernels["autoenc"].calls
          /\ kernels'["autoenc"].rng = kernels["autoenc"].rng
          /\ kernels'["autoenc"].clock = kernels["autoenc"].clock
          /\ {"train_loss", "tic", "tac"} \cap DOMAIN kernels'["autoenc"].ns = {}
          /\ kernels'["autoenc"].heap[kernels'["autoenc"].ns["net"].id].steps = 0
      ]_vars

C9_Witness ==
    /\ Len(kernels["autoenc"].done) >= AE_TrainCell
    /\ kernels["autoenc"].done[AE_TrainCell] = "SyntaxError: EOL while scanning string literal"
    /\ "net" \in DOMAIN kernels["autoenc"].ns

(***************************************************************************)
(* C10  In the dimensionality reduction notebook the whole matrix X is     *)
(* scaled and the result replaces X before PCA.fit_transform is called:    *)
(* every call of PCA receives the scaled matrix of all the samples, never  *)
(* the unscaled data.                                                      *)
(***************************************************************************)
C10_ScaledBeforePCA ==
    LET k == kernels["dimred"] IN
    /\ \A i \in 1..Len(k.calls) :
          k.calls[i].fn = "PCA" =>
              /\ k.calls[i].hist = <<"scale">>
              /\ \E j \in 1..(i - 1) : k.calls[j].fn = "scale" /\ k.calls[j].hist = <<>>
    /\ "X_reduced_pca" \in DOMAIN k.ns =>
          /\ k.ns["X_reduced_pca"].hist = <<"scale", "PCA">>
          /\ k.ns["X"].hist = <<"scale">>
          /\ Len(k.ns["X"].rows) = 1797
          /\ k.ns["X_reduced_pca"].rows = k.ns["X"].rows

C10_Witness ==
    /\ "X_reduced_pca" \in DOMAIN kernels["dimred"].ns
    /\ \E i \in 1..Len(kernels["dimred"].calls) : kernels["dimred"].calls[i].fn = "PCA"

(***************************************************************************)
(* C11  The embeddings of PCA(n_components=2) and TSNE(n_components=2)     *)
(* have 2 columns and one row per sample of X in the order of X (1797      *)
(* rows), and every plot_2D_samples call draws row i of the embedding with *)
(* the label of the sample that row was computed from, y[i].               *)
(***************************************************************************)
C11_Embedding(k, name) ==
    name \in DOMAIN k.ns =>
        /\ k.ns[name].cols = 2
        /\ Len(k.ns[name].rows) = 1797
        /\ k.ns[name].rows = k.ns["X"].rows
        /\ \A i \in 1..1797 : k.ns["y"].rows[i] = Label(k.ns[name].rows[i])

C11_EmbeddingRows ==
    LET k == kernels["dimred"] IN
    /\ C11_Embedding(k, "X_reduced_pca")
    /\ C11_Embedding(k, "X_reduced_tsne")
    /\ \A o \in 1..Len(k.outs) :
          k.outs[o].what = "plot_2D_samples" =>
              /\ k.outs[o].args[1].cols = 2
              /\ Len(k.outs[o].args[1].rows) = Len(k.outs[o].args[2].rows)
              /\ \A i \in 1..Len(k.outs[o].args[1].rows) :
                    k.outs[o].args[2].rows[i] = Label(k.outs[o].args[1].rows[i])

C11_Witness ==
    /\ "X_reduced_tsne" \in DOMAIN kernels["dimred"].ns
    /\ \E o \in 1..Len(kernels["dimred"].outs) :
          /\ kernels["dimred"].outs[o].what = "plot_2D_samples"
          /\ kernels["dimred"].outs[o].args[1].name = "X_reduced_tsne"

(***************************************************************************)
(* C12  After KMeans(n_clusters=10, ...).fit(X) every sample has one       *)
(* integer label in 0..9: labels_ has one entry per sample, entry i is the *)
(* label of sample i (sample i is at least as close to the centre of that  *)
(* label as to any other centre), there are 10 centres and at most 10      *)
(* different labels.  fit raises only when there are fewer than 10         *)
(* samples.                                                                *)
(***************************************************************************)
C12_Off(x, a) == IF a.c * x >= a.s THEN a.c * x - a.s ELSE a.s - a.c * x

C12_Closest(x, label, centers) ==
    \A j \in 1..Len(centers) :
        C12_Off(x, centers[label + 1]) * centers[j].c <= C12_Off(x, centers[j]) * centers[label + 1].c

C12_FitLabels ==
    /\ km.pc \in {"fitted", "predicted"} =>
          /\ km.n_clusters = 10
          /\ Len(km.cluster_centers_) = 10
          /\ DOMAIN km.labels_ = DOMAIN km.X
          /\ \A i \in DOMAIN km.X :
                /\ km.labels_[i] \in 0..9
                /\ C12_Closest(km.X[i], km.labels_[i], km.cluster_centers_)
          /\ Cardinality({km.labels_[i] : i \in DOMAIN km.X}) <= 10
    /\ km.pc = "raised" => Len(km.X) < 10

C12_Witness ==
    /\ km.pc = "fitted"
    /\ Len(km.X) = 12
    /\ \E i, j \in DOMAIN km.X : i # j /\ km.labels_[i] = km.labels_[j]
    /\ \E i \in DOMAIN km.X : km.labels_[i] = 9

(***************************************************************************)
(* C13  predict gives every test sample the label of a closest centre of   *)
(* the fitted model: one label per test sample, in 0..9, and no centre of  *)
(* the 10 is closer to the sample than the centre of its label.            *)
(***************************************************************************)
C13_PredictClosest ==
    km.pc = "predicted" =>
        /\ Len(km.cluster_centers_) = 10
        /\ km.cluster_centers_ = km.best.centers
        /\ DOMAIN km.pred = DOMAIN km.T
        /\ \A i \in DOMAIN km.T :
              /\ km.pred[i] \in 0..9
              /\ \A j \in 1..10 :
                    C12_Off(km.T[i], km.cluster_centers_[km.pred[i] + 1]) * km.cluster_centers_[j].c
                       <= C12_Off(km.T[i], km.cluster_centers_[j]) * km.cluster_centers_[km.pred[i] + 1].c

C13_Witness ==
    /\ km.pc = "predicted"
    /\ \E i, j \in DOMAIN km.T : km.pred[i] # km.pred[j]
    /\ \E i \in DOMAIN km.T : \A o \in DOMAIN km.X : km.T[i] # km.X[o]
    /\ \E i \in DOMAIN km.T : km.pred[i] # km.labels_[i]

(***************************************************************************)
(* C14  fit with n_init=50 makes 50 runs of the k-means algorithm, each    *)
(* from its own seed, and keeps the best of them: the labels, centres and  *)
(* inertia of the model are those of one of the runs, the inertia is the   *)
(* sum of the squared distances of the samples to the centres of their     *)
(* labels, and no run has a lower inertia.                                 *)
(***************************************************************************)
C14_BestOfRuns ==
    /\ Len(km.runs) <= 50
    /\ km.pc \in {"fit_return", "fitted", "predicted"} => Len(km.runs) = 50 /\ km.n_init = 50
    /\ \A a, b \in DOMAIN km.runs : a # b => km.runs[a].seed # km.runs[b].seed
    /\ \A a \in DOMAIN km.runs : km.runs[a].n_iter <= 100
    /\ km.pc \in {"fitted", "predicted"} =>
          /\ \A a \in DOMAIN km.runs : km.inertia_ <= km.runs[a].inertia
          /\ \E a \in DOMAIN km.runs :
                /\ km.runs[a].inertia = km.inertia_
                /\ km.runs[a].labels = km.labels_
                /\ km.runs[a].centers = km.cluster_centers_
          /\ km.inertia_ = SumSeq([i \in DOMAIN km.X |->
                 (C12_Off(km.X[i], km.cluster_centers_[km.labels_[i] + 1])
                     * (KMDen \div km.cluster_centers_[km.labels_[i] + 1].c))
                 * (C12_Off(km.X[i], km.cluster_centers_[km.labels_[i] + 1])
                     * (KMDen \div km.cluster_centers_[km.labels_[i] + 1].c))])

C14_Witness ==
    /\ km.pc = "fitted"
    /\ km.runs[1].inertia > km.inertia_
    /\ km.runs[50].inertia > km.inertia_
    /\ \E a \in 2..49 : km.runs[a].inertia = km.inertia_ /\ km.runs[a].n_iter >= 3

(***************************************************************************)
(* C15  In the SOM notebook the network is built 20x20 with the weight     *)
(* format of the train set, trained for 10000 epochs at learning rate 0.01 *)
(* and then saved: save('filename_weights') is called only after train has *)
(* returned, what it writes are the trained weights, and the graphs and    *)
(* projections made afterwards use those weights: the network is not       *)
(* changed once it is saved.                                               *)
(***************************************************************************)
C15_K == kernels["som"]

C15_Saved == {w \in C15_K.wrote : w.file = "filename_weights"}

C15_SomCalls == {"somNet.train", "somNet.save", "nodes_graph", "diff_graph", "somNet.project"}

C15_SavedAfterTrain ==
    /\ \A w \in C15_Saved :
          /\ w.weights.trained
          /\ w.weights.h = 20 /\ w.weights.w = 20
          /\ w.weights.dim = NFeatures
          /\ w.weights.data = C15_K.ns["X_train"].rows
          /\ w.weights.epochs = 10000
          /\ w.weights.lr * 100 = 10000
          /\ w.weights = Obj(C15_K, "net")
    /\ Cardinality(C15_Saved) <= 1
    /\ \A i \in DOMAIN C15_K.calls :
          /\ C15_K.calls[i].fn = "somNet.save" =>
                /\ C15_K.calls[i].trained
                /\ \E j \in 1..(i - 1) : C15_K.calls[j].fn = "somNet.train"
                /\ C15_Saved # {}
          /\ C15_K.calls[i].fn \in {"nodes_graph", "diff_graph", "somNet.project"} =>
                /\ C15_K.calls[i].trained
                /\ \E j \in 1..(i - 1) : C15_K.calls[j].fn = "somNet.save"
    /\ Len(SelectSeq(C15_K.calls, LAMBDA c : c.fn = "somNet.train")) <= 1

C15_WeightsKept ==
    C15_Saved # {} => Obj(kernels["som"], "net")' = Obj(kernels["som"], "net")

C15_BuildTrainSave == []C15_SavedAfterTrain /\ [][C15_WeightsKept]_vars

C15_Witness ==
    /\ Finished("som")
    /\ C15_Saved # {}
    /\ Len(SelectSeq(C15_K.calls, LAMBDA c : c.fn \in C15_SomCalls)) = 6
    /\ \A i \in DOMAIN C15_K.done : C15_K.done[i] = "ok"

(***************************************************************************)
(* C16  project maps every sample to its best-matching node of the 20x20   *)
(* grid: prj has one 2D position per sample, in the order of the samples,  *)
(* and row i is the position of a grid node whose weights are at least as  *)
(* close to sample i as the weights of every other node; plot_2D_samples   *)
(* receives prj of X_train with y_train and prj of X_test with y_test, row *)
(* i with label i.                                                         *)
(***************************************************************************)
C16_Sq(a, b) == (a[1] - b[1]) * (a[1] - b[1]) + (a[2] - b[2]) * (a[2] - b[2])

C16_IsBmuPos(pos, vec) ==
    \E x, y \in 0..19 :
        /\ pos = <<2 * x + (y % 2), y>>
        /\ \A m \in 1..400 : C16_Sq(som.W[20 * x + y + 1], vec) <= C16_Sq(som.W[m], vec)

C16_Rows(prj, X) ==
    /\ Len(prj) <= Len(X)
    /\ \A i \in DOMAIN prj : Len(prj[i]) = 2 /\ C16_IsBmuPos(prj[i], X[i])

C16_ProjectBmu ==
    /\ Len(som.W) = 400
    /\ som.pc = "project" => C16_Rows(som.bmuList, som[som.arg])
    /\ som.pc = "plot" => Len(som.prj) = Len(som[som.arg]) /\ C16_Rows(som.prj, som[som.arg])
    /\ \A p \in DOMAIN som.plots :
          LET X == som[som.plots[p].of]
              y == IF som.plots[p].of = "X_train" THEN som.y_train ELSE som.y_test
          IN  /\ som.plots[p].of = IF p = 1 THEN "X_train" ELSE "X_test"
              /\ DOMAIN som.plots[p].prj = DOMAIN X
              /\ som.plots[p].y = y
              /\ DOMAIN y = DOMAIN X
              /\ C16_Rows(som.plots[p].prj, X)

C16_Witness ==
    /\ som.pc = "done"
    /\ Len(som.plots) = 2
    /\ \E i, j \in DOMAIN som.plots[1].prj : som.plots[1].prj[i] # som.plots[1].prj[j]
    /\ som.plots[1].prj # som.plots[2].prj
    /\ \E i \in DOMAIN som.plots[2].prj : som.plots[2].prj[i] # <<0, 0>>

(***************************************************************************)
(* C17  Timing.  As claimed: the only readings of time.time() are the two  *)
(* pairs of the dimension-reduction notebook, each pair right before and   *)
(* right after one library call (C17_TwoLibraryCalls).  As amended: those  *)
(* two pairs enclose one fit_transform call each and their cells print     *)
(* tac - tic; the training cell of the autoencoder notebook reads the time *)
(* before train_loss = [] and after the epoch loop, so that the region it  *)
(* times is the whole training loop, and prints no elapsed time; no other  *)
(* cell reads the time (C17_TimedRegions).                                 *)
(***************************************************************************)
C17_IsTime(c, tgt) == c.fn = "time.time" /\ c.tgt = tgt

C17_Readings(k, tgt) == SelectSeq(k.calls, LAMBDA c : C17_IsTime(c, tgt))

C17_Elapsed(k) == SelectSeq(k.outs, LAMBDA o : o.what = "print" /\ "v" \in DOMAIN o)

\* every reading of the kernel is part of a tic, call, tac triple around one
\* fit_transform call
C17_AroundOneCall(k) ==
    \A i \in DOMAIN k.calls :
        /\ C17_IsTime(k.calls[i], "tic") =>
              i = Len(k.calls) \/ k.calls[i + 1].fn \in {"PCA", "TSNE"}
        /\ C17_IsTime(k.calls[i], "tac") =>
              /\ i >= 3
              /\ k.calls[i - 1].fn \in {"PCA", "TSNE"}
              /\ C17_IsTime(k.calls[i - 2], "tic")

C18_OnlySaveWrites == \A f \in files : f.file = "filename_weights"

C18_Images(fn) ==
    CASE fn = "nodes_graph"    -> "nodesFeature_9.png"
      [] fn = "diff_graph"     -> "nodesDifference.png"
      [] fn = "somNet.project" -> "projection_difference.png"

C18_Written ==
    /\ \A nb \in Notebooks \ {"som"} : kernels[nb].wrote = {}
    /\ files = kernels["som"].wrote
    /\ \A f \in files :
          \E i \in DOMAIN kernels["som"].calls :
              \/ kernels["som"].calls[i].fn = "somNet.save" /\ f.file = "filename_weights"
              \/ /\ kernels["som"].calls[i].fn \in {"nodes_graph", "diff_graph", "somNet.project"}
                 /\ f.file = C18_Images(kernels["som"].calls[i].fn)
    /\ \A i \in DOMAIN kernels["som"].calls :
          /\ kernels["som"].calls[i].fn = "somNet.save" =>
                \E f \in files : f.file = "filename_weights"
          /\ kernels["som"].calls[i].fn \in {"nodes_graph", "diff_graph", "somNet.project"} =>
                \E f \in files : f.file = C18_Images(kernels["som"].calls[i].fn)

C18_OwnKernelOnly ==
    \E nb \in Notebooks :
        /\ \A o \in Notebooks \ {nb} : kernels'[o] = kernels[o]
        /\ files' = files \cup kernels'[nb].wrote
        /\ files' # files => nb = "som"

C18_FilesAndKernels == []C18_Written /\ [][C18_OwnKernelOnly]_vars

C18_Witness ==
    /\ Finished("som")
    /\ Cardinality({f.file : f \in files}) = 4
    /\ \E f \in files : f.file = "filename_weights" /\ f.weights.trained

(***************************************************************************)
(* C19  No cell catches or transforms an error.  When a statement of a     *)
(* cell raises, the cell ends with that error, unchanged: the outcome of   *)
(* the cell and the error it displays are the error of that statement, the *)
(* statements before it have run, the statements after it have not, and    *)
(* every name that the statements before it did not assign is bound after  *)
(* the cell to what it was bound before, or is still unbound.              *)
(***************************************************************************)
C19_Targets(s) ==
    CASE s.op = "import"      -> s.a.names
      [] s.op = "load_digits" -> {s.a.x, s.a.y}
      [] s.op = "split"       -> {"X_train", "X_test", "y_train", "y_test"}
      [] s.op = "train_loop"  -> {"criterion", "optimizer", "tic", "train_loss", "epoch", "running_loss",
                                  "batch", "outputs", "loss", "tac"}
      [] s.op = "test_loop"   -> {"batch", "outputs"}
      [] OTHER                -> IF "tgt" \in DOMAIN s.a THEN {s.a.tgt} ELSE {}

C19_Assigned(body, n) == UNION {C19_Targets(body[j]) : j \in 1..n}

\* the cell of kernel k ended with error e at its statement i
C19_StoppedAt(k, k2, cell, e, i) ==
    /\ \E d \in 0..MaxTick :
          LET before == ExecBody(k, SubSeq(cell.body, 1, i - 1), 1, d)
              at     == IF e = "LibraryError" THEN before ELSE ExecStmt(before, cell.body[i], d)
          IN  /\ before.err = ""
              /\ e # "LibraryError" => at.err = e
              /\ k2.ns = before.ns
              /\ k2.calls = at.calls
              /\ k2.heap = at.heap
              /\ k2.outs = Append(before.outs, [what |-> "error", args |-> <<e>>])
    /\ e = "LibraryError" => cell.body[i].op \in LibraryCalls
    /\ DOMAIN k.ns \subseteq DOMAIN k2.ns
    /\ \A n \in DOMAIN k2.ns \ C19_Assigned(cell.body, i - 1) :
          n \in DOMAIN k.ns /\ k2.ns[n] = k.ns[n]
    /\ \A j \in i..Len(cell.body) :
          \A n \in C19_Targets(cell.body[j]) \ C19_Assigned(cell.body, i - 1) :
              IF n \in DOMAIN k.ns THEN k2.ns[n] = k.ns[n] ELSE n \notin DOMAIN k2.ns

C19_Propagates ==
    \A nb \in Notebooks :
        kernels'[nb] # kernels[nb] =>
            LET k    == kernels[nb]
                k2   == kernels'[nb]
                cell == Cells(nb)[k.next]
                e    == k2.done[Len(k2.done)]
            IN  /\ k2.next = k.next + 1
                /\ Len(k2.done) = Len(k.done) + 1
                /\ e # "ok" /\ Compile(cell.lex) = "" =>
                      \E i \in DOMAIN cell.body : C19_StoppedAt(k, k2, cell, e, i)
                /\ Compile(cell.lex) = "" =>
                      \A i \in DOMAIN cell.body :
                          LET before == ExecBody(k, SubSeq(cell.body, 1, i - 1), 1, 0)
                          IN  before.err = "" /\ ExecStmt(before, cell.body[i], 0).err # "" =>
                                  e \in {ExecStmt(before, cell.body[i], 0).err, "LibraryError"}
                /\ Compile(cell.lex) # "" =>
                      /\ e = Compile(cell.lex)
                      /\ k2.ns = k.ns /\ k2.calls = k.calls /\ k2.heap = k.heap
                      /\ k2.outs = Append(k.outs, [what |-> "error", args |-> <<e>>])

C19_ErrorsPropagate == [][C19_Propagates]_vars

C19_Witness ==
    /\ kernels["kmeans"].next = 6
    /\ kernels["kmeans"].done = <<"ok", "ok", "ok", "LibraryError", "NotFittedError">>
    /\ "kmeans_obj" \in DOMAIN kernels["kmeans"].ns
    /\ "clusters_train" \notin DOMAIN kernels["kmeans"].ns
    /\ "clusters_test" \notin DOMAIN kernels["kmeans"].ns

(***************************************************************************)
(* C20  features is the encoder half of forward.  features(x) returns      *)
(* relu(enc2(relu(enc1(x)))), of width 10; forward(x) holds that same      *)
(* value after its second statement and returns                            *)
(* relu(dec2(relu(dec1(features(x))))); neither method changes the weights *)
(* and both read enc1 and enc2 of the same network.                        *)
(***************************************************************************)
C20_Layer(L, x) ==
    [j \in 1..L.out_features |->
        LET v == Bias(net, L, j) + Dot(net, L, j, x, L.in_features) IN IF v > 0 THEN v ELSE 0]

\* z is what features returned for the argument of the running forward
C20_After(z) == z # None /\ fpc \in {"fwd_enc1", "fwd_enc2", "fwd_dec1", "fwd_dec2", "fwd_ret"}

C20_Halves ==
    /\ fpc \in {"feat_enc1", "feat_enc2", "feat_ret", "feat_returned"} =>
          /\ Len(xin) = 64
          /\ Len(applied) = (CASE fpc = "feat_enc1" -> 0 [] fpc = "feat_enc2" -> 1 [] OTHER -> 2)
          /\ \A i \in DOMAIN applied : applied[i].layer = <<"enc1", "enc2">>[i]
    /\ fpc = "feat_enc2" => xloc = C20_Layer(enc1, xin)
    /\ fpc = "feat_returned" => ret = xloc /\ Len(ret) = 10 /\ \A j \in 1..10 : ret[j] >= 0
    /\ C20_After(ret) /\ fpc = "fwd_enc2" => xloc = C20_Layer(enc1, xin)
    /\ C20_After(ret) /\ fpc = "fwd_dec1" => xloc = ret
    /\ C20_After(ret) /\ fpc = "fwd_dec2" => xloc = C20_Layer(dec1, ret)

\* a statement of features after the first: it is enc2 that is applied; the
\* last statement of forward applies dec2 to what dec1 gave
C20_Steps ==
    /\ fpc = "feat_enc2" /\ fpc' = "feat_ret" => xloc' = C20_Layer(enc2, xloc)
    /\ C20_After(ret) /\ fpc = "fwd_dec2" /\ fpc' = "fwd_ret" => xloc' = C20_Layer(dec2, xloc)
    /\ C20_After(ret) /\ fpc = "fwd_ret" => ret' = xloc
    /\ net' = net

C20_FeaturesIsEncoder == []C20_Halves /\ [][C20_Steps]_vars

C20_Witness ==
    /\ fpc = "fwd_ret"
    /\ C20_After(ret)
    /\ Len(ret) = 10
    /\ Len(xloc) = 64
    /\ \E j \in 1..10 : ret[j] > 0
    /\ \E j \in 1..10 : ret[j] = 0
    /\ \E j \in 1..64 : xloc[j] > 0

(***************************************************************************)
(* C21  Every component of what forward returns (64 of them) and of what   *)
(* features returns (10 of them) is greater than or equal to 0, whatever   *)
(* the input and the weights: the last statement of each method, like the  *)
(* ones before it, passes the layer's output through relu, so the value a  *)
(* method is about to return has no negative component either.             *)
(***************************************************************************)
C21_NonNeg(v) == v # None /\ \A j \in DOMAIN v : v[j] >= 0

C21_Outputs ==
    /\ fpc = "returned" => Len(ret) = dec2.out_features /\ C21_NonNeg(ret)
    /\ fpc = "feat_returned" => Len(ret) = enc2.out_features /\ C21_NonNeg(ret)
    /\ fpc \in {"fwd_ret", "feat_ret"} => C21_NonNeg(xloc)

\* the statement before a return clamps: a component of its result is the
\* layer's output where that is positive and 0 elsewhere
C21_LastStmt ==
    \A L \in {enc2, dec2} :
        /\ fpc = (IF L = enc2 THEN "feat_enc2" ELSE "fwd_dec2")
        /\ fpc' = (IF L = enc2 THEN "feat_ret" ELSE "fwd_ret")
        => \A j \in 1..L.out_features :
              LET v == Dot(net, L, j, xloc, L.in_features) + Bias(net, L, j)
              IN  xloc'[j] = IF v < 0 THEN 0 ELSE v

C21_OutputsNonNegative == []C21_Outputs /\ [][C21_LastStmt]_vars

\* forward has returned an output with clamped and with positive components
C21_Witness ==
    /\ fpc = "returned"
    /\ Len(ret) = 64
    /\ Len(applied) = 4
    /\ \E j \in 1..64 : ret[j] = 0
    /\ \E j \in 1..64 : ret[j] > 0

(***************************************************************************)
(* C22  The test cell of the autoencoder notebook leaves the network as it *)
(* found it: the only call on it is one forward pass, with no zero_grad,   *)
(* backward or optimizer step.  X_test has 20 rows and the test loader a   *)
(* batch size of 20, so the loop body runs exactly once: it plots the 20   *)
(* test images, in the order of X_test, and then the 20 rows of 64 values  *)
(* the network gave for them.                                              *)
(***************************************************************************)
C22_Tail(s, from) == SubSeq(s, from + 1, Len(s))

C22_TestCellRan(k, k2) ==
    LET calls == C22_Tail(k2.calls, Len(k.calls))
        outs  == C22_Tail(k2.outs, Len(k.outs))
        test  == k.ns["X_test"].rows
    IN  /\ k2.done[k.next] = "ok"
        /\ k2.heap = k.heap
        /\ k2.ns["net"] = k.ns["net"]
        /\ Len(test) = 20
        /\ k2.ns["testloader"].batch_size = 20
        /\ LoaderLen(k2.ns["testloader"]) = 1
        /\ Len(calls) = 1
        /\ calls[1].fn = "test.forward"
        /\ Len(outs) = 2
        /\ outs[1] = [what |-> "plot_images",
                      args |-> << [name |-> "batch", rows |-> test, cols |-> NFeatures] >>]
        /\ outs[2] = [what |-> "plot_images",
                      args |-> << [name |-> "outputs", rows |-> test, cols |-> NFeatures] >>]
        /\ k2.ns["outputs"].src = <<k.ns["net"].id, Obj(k, "net").init, Obj(k, "net").steps>>

C22_TestCellStep ==
    /\ kernels["autoenc"].next = Len(AE_Cells) - 1
    /\ kernels'["autoenc"].next = Len(AE_Cells)
    => C22_TestCellRan(kernels["autoenc"], kernels'["autoenc"])

C22_TestCellReadsOnly == [][C22_TestCellStep]_vars

\* the test cell has run, after the training cell failed to compile
C22_Witness ==
    LET k == kernels["autoenc"]
    IN  /\ k.next = Len(AE_Cells)
        /\ k.done[Len(AE_Cells) - 1] = "ok"
        /\ k.done[Len(AE_Cells) - 2] # "ok"
        /\ "outputs" \in DOMAIN k.ns
        /\ Len(k.ns["outputs"].rows) = 20
        /\ k.outs[Len(k.outs)].what = "plot_images"
        /\ Obj(k, "net").steps = 0

(***************************************************************************)
(* C23  predict does not change the fitted KMeans model.  fit returns the  *)
(* model itself, so clusters_train and kmeans_obj name one object; the     *)
(* cell that calls kmeans_obj.predict(X_test) leaves that object, its      *)
(* centres and its labels_ (one label per training sample), as fit left    *)
(* it, and plot_centroids(clusters_train, clusters_test) receives that     *)
(* object together with the labels predict returned.  The centres a fit    *)
(* found are named by the seed of the fit.                                 *)
(***************************************************************************)
C23_Fitted(k) == "clusters_train" \in DOMAIN k.ns

C23_SameObject ==
    LET k == kernels["kmeans"]
    IN  C23_Fitted(k) =>
           /\ k.ns["clusters_train"] = k.ns["kmeans_obj"]
           /\ k.ns["clusters_train"].kind = "ref"
           /\ Obj(k, "clusters_train").trained
           /\ Len(Obj(k, "clusters_train").labels_) = Len(k.ns["X_train"].rows)

\* a step of the notebook once fit was called: the predict cell, then the
\* plot_centroids cell
C23_AfterFit ==
    LET k  == kernels["kmeans"]
        k2 == kernels'["kmeans"]
    IN  C23_Fitted(k) /\ k2 # k =>
           /\ k2.heap = k.heap
           /\ k2.ns["clusters_train"] = k.ns["clusters_train"]
           /\ k2.ns["kmeans_obj"] = k.ns["kmeans_obj"]
           /\ Obj(k2, "kmeans_obj").seed = Obj(k, "clusters_train").seed
           /\ Obj(k2, "kmeans_obj").labels_ = Obj(k, "clusters_train").labels_
           /\ "clusters_test" \notin DOMAIN k.ns =>
                  /\ k2.calls = Append(k.calls, [fn |-> "KMeans.predict", trained |-> TRUE,
                                                  hist |-> k.ns["X_test"].hist])
                  /\ Len(k2.ns["clusters_test"].rows) = Len(k.ns["X_test"].rows)
           /\ "clusters_test" \in DOMAIN k.ns =>
                  k2.outs = Append(k.outs,
                      [what  |-> "plot_centroids",
                       args  |-> << [name |-> "clusters_test",
                                     rows |-> k.ns["clusters_test"].rows, cols |-> 0] >>,
                       model |-> [id |-> k.ns["kmeans_obj"].id,
                                  attrs |-> Obj(k, "kmeans_obj")]])

C23_PredictKeepsModel == []C23_SameObject /\ [][C23_AfterFit]_vars

\* plot_centroids has been given the model and the predicted labels
C23_Witness ==
    LET k == kernels["kmeans"]
    IN  /\ Finished("kmeans")
        /\ "clusters_test" \in DOMAIN k.ns
        /\ k.outs[Len(k.outs)].what = "plot_centroids"
        /\ k.outs[Len(k.outs)].model.attrs = Obj(k, "clusters_train")
        /\ k.outs[Len(k.outs)].model.attrs.trained
        /\ Len(k.outs[Len(k.outs)].model.attrs.labels_) = NSamples - 20
        /\ Len(k.ns["clusters_test"].rows) = 20

====
